---- MODULE Spec2Model ----
(***************************************************************************)
(* A model of moonshine-wrangler's FUSE -> JSON conversion engine:         *)
(*   fuse_json_adaptors.py    value adaptors (RangeAdaptor, CVPA, SCPA,    *)
(*                            BPA)                                         *)
(*   fuse_json_converters.py  the module converter registry, the module    *)
(*                            converter and the preset assembler           *)
(*                                                                         *)
(* Numbers.  Python floats are modelled as integers counted in the quantum *)
(* of the format that prints them: a JSON value printed with ".3f" is an   *)
(* integer number of thousandths, a UI value printed with "2.1f" a number  *)
(* of tenths, one printed with ".0f" a number of units.  Linear            *)
(* interpolation is computed on exact rationals and rounded to the nearest *)
(* quantum.  A value exactly half way between two quanta is rounded half   *)
(* to even when every float operand of the computation is exact (bounds    *)
(* that are whole numbers); when a bound such as 0.03 or 1.47 has no exact *)
(* binary representation the float's rounding error decides the tie, and   *)
(* the model admits both neighbours.                                       *)
(***************************************************************************)
EXTENDS Integers, Sequences, FiniteSets, TLC

VARIABLES
    ad,     \* the value-adaptor harness: one adaptor applied to one value
    lk,     \* the registry harness: one fuse_mc_lookup call
    cv,     \* the running convert_fuse_module call
    upv,    \* unconverted_param_values, the shared frequency table
    asm,    \* the running fuse_to_json call and the __main__ step after it
    cn,     \* one call of _make_preset_canonical
    sc,     \* the running find_fender_lt_json_snippets call
    cc      \* two convert_fuse_module calls that run at once on one table

vars == <<ad, lk, cv, upv, asm, cn, sc, cc>>

-----------------------------------------------------------------------------
(* Bounds of the model *)

\* native values below zero that are tried: -NegSpan .. -1
NegSpan == 2
\* the largest native value that is tried (one above 65536)
MaxNative == 65537
\* the largest module id that is looked up
MaxModuleId == 255
\* the largest parameter position (ControlIndex) of a raw block
MaxPos == 8
\* the largest number of parameters of a raw block
MaxParams == 2
\* the largest number of files of a batch run
MaxFiles == 2
\* the number of values the fingerprint can take
MaxDigest == 2
\* the largest number of lines of a scan
MaxLines == 3
\* a module id no descriptor has
UnregisteredId == 99

-----------------------------------------------------------------------------
(* fuse_json_adaptors.py *)

FuseMin == 768      \* 0x0300
FuseMax == 65280    \* 0xFF00

RECURSIVE Gcd(_, _)
Gcd(a, b) == IF b = 0 THEN a ELSE Gcd(b, a % b)

Abs(x) == IF x < 0 THEN -x ELSE x

\* A value of the interchange (JSON) side.
\*   kind "float": num thousandths; "str": str; "bool": num is 1 or 0;
\*   "raw": the text of an unconverted parameter (num, str as in the text)
JFloat(m) == [kind |-> "float", num |-> m, str |-> ""]
JStr(s) == [kind |-> "str", num |-> 0, str |-> s]
JBool(b) == [kind |-> "bool", num |-> IF b THEN 1 ELSE 0, str |-> ""]

\* The outcome of a call: a value, or the exception it raised.
Returned(v) == [ok |-> TRUE, exc |-> "", val |-> v]
Raised(e) == [ok |-> FALSE, exc |-> e, val |-> JStr("")]

\* One formatted number of a UI string: num * 10^-dec followed by text;
\* dec = -1: text alone.
UiNum(q, dec, suffix) == [num |-> q, dec |-> dec, text |-> suffix]
UiText(s) == [num |-> 0, dec |-> -1, text |-> s]

\* RangeAdaptor(min_in, max_in, min_out, max_out, format, suffix).
\*   milli_in: the input is a float, counted in thousandths (else an int)
\*   min_out, max_out: counted in the quantum 10^-decimals of the format
\*   exact: min_out and max_out - min_out are whole numbers and the input
\*          is an int, so the float computation is exact at every tie
RangeAdaptor(min_in, max_in, milli_in, min_out, max_out, decimals, suffix, exact) ==
    [min_in |-> min_in, max_in |-> max_in, milli_in |-> milli_in,
     min_out |-> min_out, max_out |-> max_out,
     decimals |-> decimals, suffix |-> suffix, exact |-> exact]

\* format(value_out, self.format) of min_out + num/den: the quanta nearest to
\* the exact value.
RoundNearestMutTrunc(min_out, num, den, exact) ==
    {min_out + (num \div den)}

RoundNearest(min_out, num, den, exact) ==
    LET q == min_out + (num \div den)
        r == num % den
    IN  IF 2 * r < den THEN {q}
        ELSE IF 2 * r > den THEN {q + 1}
        ELSE IF exact THEN {IF q % 2 = 0 THEN q ELSE q + 1}
        ELSE {q, q + 1}

\* lines 51-54: value_out = min_out + (value_in - min_in) * (max_out - min_out)
\*                                    / (max_in - min_in)
\* The fraction (max_out - min_out) / (max_in - min_in) is reduced first, which
\* leaves the rational unchanged and keeps the product within 32 bits.
Interpolate(ra, value_in) ==
    LET span == ra.max_out - ra.min_out
        den == ra.max_in - ra.min_in
        g == Gcd(Abs(span), den)
    IN  RoundNearest(ra.min_out, (value_in - ra.min_in) * (span \div g),
                     den \div g, ra.exact)

\* lines 37-50: the sentinel values of the native range [0x0300, 0xFF00]
SentinelLowMutClamp == 0 .. (FuseMin - 1)

SentinelLow == {0, 256}

SentinelHigh == {65535}

\* RangeAdaptor.adapt: the set of quanta the call can return, or {} when an
\* assertion fails.
AdaptQuanta(ra, value_in) ==
    LET native == ra.min_in = FuseMin /\ ra.max_in = FuseMax /\ ~ra.milli_in
    IN  IF native /\ value_in < ra.min_in
        THEN (IF value_in \in SentinelLow THEN {ra.min_out} ELSE {})
        ELSE IF native /\ value_in > ra.max_in
        THEN (IF value_in \in SentinelHigh THEN {ra.max_out} ELSE {})
        ELSE Interpolate(ra, value_in)

\* _DEFAULT_JSON_FORMAT = ".3f"
DefaultJsonDecimals == 3

\* ContinuousValuedParameterAdaptor(fuse_min, fuse_max, json_min, json_max,
\* ui_range_adaptors); json_min and json_max in thousandths
DefaultUiRangeAdaptors ==
    <<RangeAdaptor(0, 1000, TRUE, 10, 100, 1, "", FALSE),
      RangeAdaptor(0, 1000, TRUE, 0, 100, 0, "%", FALSE)>>

CVPA(json_min, json_max, exact, ui_range_adaptors) ==
    [fuse_to_json_ra |->
        RangeAdaptor(FuseMin, FuseMax, FALSE, json_min, json_max,
                     DefaultJsonDecimals, "", exact),
     ui_range_adaptors |-> ui_range_adaptors]

\* fuse_json_converters.py lines 36-75: the adaptor instances
default_cvpa == CVPA(0, 1000, TRUE, DefaultUiRangeAdaptors)

volume_cvpa ==
    CVPA(-60000, 0, TRUE,
         <<RangeAdaptor(-60000, 0, TRUE, 10, 100, 1, "", FALSE),
           RangeAdaptor(-60000, 0, TRUE, 0, 100, 0, "%", FALSE)>>)

delay_time_cvpa ==
    CVPA(30, 1500, FALSE,
         <<RangeAdaptor(30, 1500, TRUE, 30, 1500, 0, " ms", FALSE)>>)

low_med_hi_max_json == <<"low", "medium", "high", "super">>

low_med_hi_max_ui ==
    [t \in {"low", "medium", "high", "super"} |->
        CASE t = "low" -> "LOW"
          [] t = "medium" -> "MID"
          [] t = "high" -> "HIGH"
          [] t = "super" -> "MAX"]

ContinuousAdaptors == {"default_cvpa", "volume_cvpa", "delay_time_cvpa"}
Adaptors == ContinuousAdaptors \cup {"low_med_hi_max_scpa", "default_bpa"}

CvpaOf(a) ==
    CASE a = "default_cvpa" -> default_cvpa
      [] a = "volume_cvpa" -> volume_cvpa
      [] a = "delay_time_cvpa" -> delay_time_cvpa

\* ContinuousValuedParameterAdaptor.fuse_to_json
CvpaFuseToJson(a, v) ==
    LET qs == AdaptQuanta(CvpaOf(a).fuse_to_json_ra, v)
    IN  IF qs = {} THEN {Raised("AssertionError")}
        ELSE {Returned(JFloat(q)) : q \in qs}

\* ContinuousValuedParameterAdaptor.json_to_ui: each UI range adaptor applied
\* to the JSON value, the strings joined with "/"
RECURSIVE UiJoin(_, _)
UiJoin(ras, m) ==
    IF ras = <<>> THEN {<<>>}
    ELSE {<<UiNum(q, Head(ras).decimals, Head(ras).suffix)>> \o rest :
            q \in AdaptQuanta(Head(ras), m), rest \in UiJoin(Tail(ras), m)}

CvpaJsonToUi(a, jv) == UiJoin(CvpaOf(a).ui_range_adaptors, jv.num)

\* StringChoiceParameterAdaptor.fuse_to_json: self.json_strings[v], a Python
\* list subscript (a negative index counts from the end)
ScpaFuseToJsonMutOffByOne(json_strings, v) ==
    IF v \in 1 .. Len(json_strings)
    THEN Returned(JStr(json_strings[v]))
    ELSE Raised("IndexError")

ScpaFuseToJson(json_strings, v) ==
    IF v \in 0 .. (Len(json_strings) - 1)
    THEN Returned(JStr(json_strings[v + 1]))
    ELSE IF v \in (-Len(json_strings)) .. -1
    THEN Returned(JStr(json_strings[Len(json_strings) + v + 1]))
    ELSE Raised("IndexError")

\* StringChoiceParameterAdaptor.json_to_ui: self.ui_strings[v], a dict lookup
ScpaJsonToUi(ui_strings, jv) ==
    IF jv.kind = "str" /\ jv.str \in DOMAIN ui_strings
    THEN Returned(JStr(ui_strings[jv.str]))
    ELSE Raised("KeyError")

\* BooleanParameterAdaptor.fuse_to_json: v != 0
BpaFuseToJsonMutIsOne(v) == JBool(v = 256)

BpaFuseToJson(v) == JBool(v # 0)

\* str(v) of a Python bool, and str.upper() of that
PyStr(jv) == IF jv.num # 0 THEN "True" ELSE "False"

PyUpper(s) ==
    CASE s = "True" -> "TRUE"
      [] s = "False" -> "FALSE"
      [] OTHER -> s

\* BooleanParameterAdaptor.json_to_ui: str(v).upper()
BpaJsonToUi(jv) == PyUpper(PyStr(jv))

\* parameter_adaptor.fuse_to_json(v): every outcome the call can have
FuseToJson(a, v) ==
    CASE a \in ContinuousAdaptors -> CvpaFuseToJson(a, v)
      [] a = "low_med_hi_max_scpa" -> {ScpaFuseToJson(low_med_hi_max_json, v)}
      [] a = "default_bpa" -> {Returned(BpaFuseToJson(v))}

\* parameter_adaptor.json_to_ui(json_value): every UI value it can return (a
\* sequence of formatted parts), {} when it raises
JsonToUi(a, jv) ==
    CASE a \in ContinuousAdaptors -> CvpaJsonToUi(a, jv)
      [] a = "low_med_hi_max_scpa" ->
            LET r == ScpaJsonToUi(low_med_hi_max_ui, jv)
            IN  IF r.ok THEN {<<UiText(r.val.str)>>} ELSE {}
      [] a = "default_bpa" -> {<<UiText(BpaJsonToUi(jv))>>}

-----------------------------------------------------------------------------
(* fuse_json_converters.py: the registry *)

ModuleTypes == {"Stompbox", "Modulation", "Amplifier", "Delay", "Reverb"}

\* EditableParamConverter(json_param_name, ui_param_name, parameter_adaptor)
EditableParamConverter(json_param_name, ui_param_name, parameter_adaptor) ==
    [json_param_name |-> json_param_name, ui_param_name |-> ui_param_name,
     parameter_adaptor |-> parameter_adaptor, editable |-> TRUE]

\* HiddenParamConverter(json_param_name, parameter_adaptor)
HiddenParamConverter(json_param_name, parameter_adaptor) ==
    [json_param_name |-> json_param_name, ui_param_name |-> "",
     parameter_adaptor |-> parameter_adaptor, editable |-> FALSE]

pc_volume == EditableParamConverter("volume", "VOLUME", "volume_cvpa")
pc_gain == EditableParamConverter("gain", "GAIN", "default_cvpa")
pc_treble == EditableParamConverter("treble", "TREBLE", "default_cvpa")
pc_middle == EditableParamConverter("mid", "MIDDLE", "default_cvpa")
pc_bass == EditableParamConverter("bass", "BASS", "default_cvpa")
pc_presence == HiddenParamConverter("presence", "default_cvpa")
pc_resonance == HiddenParamConverter("_resonance", "default_cvpa")
pc_level == EditableParamConverter("level", "LEVEL", "default_cvpa")
pc_low == EditableParamConverter("low", "LOW", "default_cvpa")
pc_mid == EditableParamConverter("mid", "MID", "default_cvpa")
pc_high == EditableParamConverter("high", "HIGH", "default_cvpa")
pc_compressor_type == EditableParamConverter("type", "TYPE", "low_med_hi_max_scpa")
pc_speed == EditableParamConverter("speed", "SPEED", "default_cvpa")
pc_depth == EditableParamConverter("depth", "DEPTH", "default_cvpa")
pc_feedback == EditableParamConverter("feedback", "FEEDBACK", "default_cvpa")
pc_phase == EditableParamConverter("phase", "PHASE", "default_cvpa")
pc_wet_level == EditableParamConverter("wetLvl", "LEVEL", "default_cvpa")
pc_time == EditableParamConverter("time", "TIME", "delay_time_cvpa")
pc_delay_time == EditableParamConverter("dlyTime", "DELAY", "delay_time_cvpa")
pc_wow_and_flutter == EditableParamConverter("wowLevel", "WOW", "default_cvpa")
pc_stereo == HiddenParamConverter("stereo", "default_bpa")
pc_brightness == HiddenParamConverter("brightness", "default_cvpa")
pc_attenuation == HiddenParamConverter("attenuation", "default_cvpa")
pc_decay == EditableParamConverter("decay", "DECAY", "default_cvpa")
pc_dwell == EditableParamConverter("dwell", "DWELL", "default_cvpa")
pc_diffusion == EditableParamConverter("diffuse", "DIFFUSE", "default_cvpa")
pc_tone == EditableParamConverter("tone", "TONE", "default_cvpa")

\* A param_converters value: a dict from parameter position to converter
\* (is_dict), or the empty tuple () of the Passthru entry.
PyDict(slots) == [is_dict |-> TRUE, slots |-> slots]
PyEmptyTuple == [is_dict |-> FALSE, slots |-> <<>>]

DEFAULT_AMP_PARAM_CONVERTERS ==
    PyDict(1 :> pc_gain @@ 0 :> pc_volume @@ 4 :> pc_treble @@ 5 :> pc_middle
           @@ 6 :> pc_bass @@ 7 :> pc_presence @@ 8 :> pc_resonance)

OVERDRIVE_PARAM_CONVERTERS ==
    PyDict(0 :> pc_level @@ 1 :> pc_level @@ 2 :> pc_low @@ 3 :> pc_mid
           @@ 4 :> pc_high)

COMPRESSOR_PARAM_CONVERTERS == PyDict(0 :> pc_compressor_type)

VIBRATONE_PARAM_CONVERTERS ==
    PyDict(0 :> pc_level @@ 1 :> pc_speed @@ 2 :> pc_depth @@ 3 :> pc_feedback
           @@ 4 :> pc_phase)

MONO_DELAY_PARAM_CONVERTERS ==
    PyDict(0 :> pc_level @@ 1 :> pc_time @@ 2 :> pc_feedback
           @@ 3 :> pc_brightness @@ 4 :> pc_attenuation)

TAPE_DELAY_PARAM_CONVERTERS ==
    PyDict(0 :> pc_wet_level @@ 1 :> pc_delay_time @@ 2 :> pc_feedback
           @@ 3 :> pc_wow_and_flutter @@ 4 :> pc_brightness @@ 5 :> pc_stereo)

DEFAULT_REVERB_PARAM_CONVERTERS ==
    PyDict(0 :> pc_level @@ 1 :> pc_decay @@ 2 :> pc_dwell @@ 3 :> pc_diffusion
           @@ 4 :> pc_tone)

\* ModuleConverter(fuse_type, fuse_id, json_id, ui_name, param_converters);
\* the fuse_type None is written "None", as str() prints it
ModuleConverter(fuse_type, fuse_id, json_id, ui_name, param_converters) ==
    [fuse_type |-> fuse_type, fuse_id |-> fuse_id, json_id |-> json_id,
     ui_name |-> ui_name, param_converters |-> param_converters]

PassthruFuseId == 0

MODULE_CONVERTERS ==
    <<ModuleConverter("Amplifier", 83, "Deluxe65", "DELUXE CLN", DEFAULT_AMP_PARAM_CONVERTERS),
      ModuleConverter("Amplifier", 114, "SuperSonic", "BURN", DEFAULT_AMP_PARAM_CONVERTERS),
      ModuleConverter("Amplifier", 117, "Twin65", "TWIN CLEAN", DEFAULT_AMP_PARAM_CONVERTERS),
      ModuleConverter("Amplifier", 249, "Ac30Tb", "60S UK CLEAN", DEFAULT_AMP_PARAM_CONVERTERS),
      ModuleConverter("Stompbox", 60, "Overdrive", "OVERDRIVE", OVERDRIVE_PARAM_CONVERTERS),
      ModuleConverter("Stompbox", 136, "SimpleCompressor", "COMPRESSOR", COMPRESSOR_PARAM_CONVERTERS),
      ModuleConverter("Modulation", 45, "Vibratone", "VIBRATONE", VIBRATONE_PARAM_CONVERTERS),
      ModuleConverter("Delay", 22, "MonoDelay", "DELAY", MONO_DELAY_PARAM_CONVERTERS),
      ModuleConverter("Delay", 43, "TapeDelayLite", "ECHO", TAPE_DELAY_PARAM_CONVERTERS),
      ModuleConverter("Reverb", 11, "Spring65", "SPRING 65", DEFAULT_REVERB_PARAM_CONVERTERS),
      ModuleConverter("Reverb", 58, "LargeHall", "LARGE HALL", DEFAULT_REVERB_PARAM_CONVERTERS),
      ModuleConverter("None", PassthruFuseId, "Passthru", "NONE", PyEmptyTuple)>>

\* The text of an exception or of a diagnostic: the fixed words and the values
\* formatted into them (-1: no such value).
Message(text, type, id, pos) == [text |-> text, type |-> type, id |-> id, pos |-> pos]
PlainMessage(text) == Message(text, "", -1, -1)

NoMc == ModuleConverter("", -1, "", "", PyEmptyTuple)

\* fuse_mc_lookup: the converters with the requested id whose fuse_type is None
\* or the requested type; exactly one must match
McMatchesMutAnyType(mc, fuse_module_type, fuse_module_id) ==
    mc.fuse_id = fuse_module_id

McMatchesMutNoWildcard(mc, fuse_module_type, fuse_module_id) ==
    mc.fuse_id = fuse_module_id /\ mc.fuse_type = fuse_module_type

McMatches(mc, fuse_module_type, fuse_module_id) ==
    /\ mc.fuse_id = fuse_module_id
    /\ (mc.fuse_type = "None" \/ mc.fuse_type = fuse_module_type)

FuseMcLookup(fuse_module_type, fuse_module_id) ==
    LET matching_mcs ==
            SelectSeq(MODULE_CONVERTERS,
                      LAMBDA mc : McMatches(mc, fuse_module_type, fuse_module_id))
    IN  IF Len(matching_mcs) = 1
        THEN [ok |-> TRUE, mc |-> matching_mcs[1], n |-> 1, msg |-> PlainMessage("")]
        ELSE [ok |-> FALSE, mc |-> NoMc, n |-> Len(matching_mcs),
              msg |-> Message("Converter not found for", fuse_module_type,
                              fuse_module_id, -1)]

\* fuse_pc_lookup: mc.param_converters.get(fuse_param_id, None); a tuple has no
\* get, so the call raises AttributeError for the Passthru entry
NoPc == HiddenParamConverter("", "")

FusePcLookup(mc, fuse_param_id) ==
    IF ~mc.param_converters.is_dict
    THEN [raised |-> TRUE, found |-> FALSE, pc |-> NoPc]
    ELSE IF fuse_param_id \in DOMAIN mc.param_converters.slots
    THEN [raised |-> FALSE, found |-> TRUE,
          pc |-> mc.param_converters.slots[fuse_param_id]]
    ELSE [raised |-> FALSE, found |-> FALSE, pc |-> NoPc]

-----------------------------------------------------------------------------
(* fuse_json_converters.py: convert_fuse_module *)

\* The text of an XML attribute or element: a decimal numeral (s = "", n its
\* value) or text that is no numeral (s).
Numeral(n) == [n |-> n, s |-> ""]
Garbled(s) == [n |-> 0, s |-> s]

\* int(text)
PyInt(t) == IF t.s = "" THEN [ok |-> TRUE, n |-> t.n] ELSE [ok |-> FALSE, n |-> 0]

\* the JSON value of a parameter stored verbatim
JRaw(t) == [kind |-> "raw", num |-> t.n, str |-> t.s]

\* d[k] = v on a Python dict
DictSet(d, k, v) == [x \in (DOMAIN d) \cup {k} |-> IF x = k THEN v ELSE d[x]]

\* d.get(k, default)
DictGet(d, k, default) == IF k \in DOMAIN d THEN d[k] ELSE default

RECURSIVE SumOver(_, _)
SumOver(f, S) ==
    IF S = {} THEN 0
    ELSE LET x == CHOOSE y \in S : TRUE IN f[x] + SumOver(f, S \ {x})

\* unconverted_param_values: None, or a dict from (fuse_type, position, value)
\* to [total, {fuse_id: count}]
UpvNone == [is_none |-> TRUE, tab |-> <<>>]
UpvDict(tab) == [is_none |-> FALSE, tab |-> tab]
UpvEntry(total, by_id) == [total |-> total, by_id |-> by_id]

\* lines 279-284: count one unconverted parameter
UpvCount(table, mc, fuse_param_id, value) ==
    LET upv_key == <<mc.fuse_type, fuse_param_id, value>>
        upv_entry == DictGet(table.tab, upv_key, UpvEntry(0, <<>>))
        upv_module_count == DictGet(upv_entry.by_id, mc.fuse_id, 0)
        by_id == DictSet(upv_entry.by_id, mc.fuse_id, upv_module_count + 1)
    IN  UpvDict(DictSet(table.tab, upv_key,
                        UpvEntry(SumOver(by_id, DOMAIN by_id), by_id)))

\* "__" + str(fuse_param_id)
SyntheticName(fuse_param_id) == "__" \o ToString(fuse_param_id)

\* line 286: the message of the RuntimeError
AttemptingMessage(mc, fuse_param_id) ==
    Message("Attempting to process", mc.fuse_type, mc.fuse_id, fuse_param_id)

\* One pass of the loop body, lines 260-289, for the parameter element param
\* (ControlIndex, text): every state the pass can leave, each with
\*   ok: no exception (else a RuntimeError with msg was raised)
StepOk(json_params, ui_params, table) ==
    [ok |-> TRUE, json_params |-> json_params, ui_params |-> ui_params,
     upv |-> table, msg |-> PlainMessage("")]

StepRaised(mc, fuse_param_id, json_params, ui_params, table) ==
    [ok |-> FALSE, json_params |-> json_params, ui_params |-> ui_params,
     upv |-> table, msg |-> AttemptingMessage(mc, fuse_param_id)]

\* lines 264-275: the parameter has a converter
ConvertMapped(mc, pc, param, json_params, ui_params, table) ==
    LET fuse_param_id == param.ControlIndex
        n == PyInt(param.text)
    IN  IF ~n.ok
        THEN {StepRaised(mc, fuse_param_id, json_params, ui_params, table)}
        ELSE UNION {
            IF ~r.ok
            THEN {StepRaised(mc, fuse_param_id, json_params, ui_params, table)}
            ELSE LET json_params2 == DictSet(json_params, pc.json_param_name, r.val)
                     ui_values == JsonToUi(pc.parameter_adaptor, r.val)
                 IN  IF ~pc.editable
                     THEN {StepOk(json_params2, ui_params, table)}
                     ELSE IF ui_values = {}
                     THEN {StepRaised(mc, fuse_param_id, json_params2, ui_params, table)}
                     ELSE {StepOk(json_params2,
                                  DictSet(ui_params, pc.ui_param_name, ui_value),
                                  table) : ui_value \in ui_values}
            : r \in FuseToJson(pc.parameter_adaptor, n.n)}

\* lines 277-284: the parameter has no converter
ConvertUnmapped(mc, param, json_params, ui_params, table) ==
    LET fuse_param_id == param.ControlIndex
        json_params2 == DictSet(json_params, SyntheticName(fuse_param_id),
                                JRaw(param.text))
        n == PyInt(param.text)
    IN  IF table.is_none
        THEN {StepOk(json_params2, ui_params, table)}
        ELSE IF ~n.ok
        THEN {StepRaised(mc, fuse_param_id, json_params2, ui_params, table)}
        ELSE {StepOk(json_params2, ui_params,
                     UpvCount(table, mc, fuse_param_id, n.n))}

ConvertParam(mc, param, json_params, ui_params, table) ==
    LET fuse_param_id == param.ControlIndex
        looked == FusePcLookup(mc, fuse_param_id)
    IN  IF looked.raised
        THEN {StepRaised(mc, fuse_param_id, json_params, ui_params, table)}
        ELSE IF looked.found
        THEN ConvertMapped(mc, looked.pc, param, json_params, ui_params, table)
        ELSE ConvertUnmapped(mc, param, json_params, ui_params, table)

\* An XML element of one category: its tag and its children, the first of
\* which is the selected module (attribute ID, one Param child per parameter).
Param(ControlIndex, text) == [ControlIndex |-> ControlIndex, text |-> text]
ModuleElement(ID, params) == [ID |-> ID, params |-> params]
CategoryElement(tag, children) == [tag |-> tag, children |-> children]

\* An exception in flight: its class and its message
Exc(cls, msg) == [cls |-> cls, msg |-> msg]
NoExc == Exc("", PlainMessage(""))

CvIdle ==
    [pc |-> "idle", type |-> "", element |-> CategoryElement("", <<>>),
     mc |-> NoMc, i |-> 0, json_params |-> <<>>, ui_params |-> <<>>,
     exc |-> NoExc]

\* the call convert_fuse_module(fuse_module_type, fuse_module_element, ...)
CvCalled(fuse_module_type, fuse_module_element) ==
    [CvIdle EXCEPT !.pc = "lookup", !.type = fuse_module_type,
                   !.element = fuse_module_element]

\* lines 253-258: the module converter is looked up
CvLookup ==
    /\ cv.pc = "lookup"
    /\ IF cv.element.children = <<>>
       THEN cv' = [cv EXCEPT !.pc = "raised",
                       !.exc = Exc("IndexError", PlainMessage("child index out of range"))]
       ELSE LET id == PyInt(cv.element.children[1].ID)
                looked == FuseMcLookup(cv.type, id.n)
            IN  IF ~id.ok
                THEN cv' = [cv EXCEPT !.pc = "raised",
                                !.exc = Exc("ValueError", PlainMessage("invalid literal for int()"))]
                ELSE IF ~looked.ok
                THEN cv' = [cv EXCEPT !.pc = "raised",
                                !.exc = Exc("AssertionError", looked.msg)]
                ELSE cv' = [cv EXCEPT !.pc = "params", !.mc = looked.mc, !.i = 1]
    /\ UNCHANGED <<ad, lk, upv, asm, cn, sc, cc>>

\* lines 259-289: one pass of the loop over the module's parameters
CvParam ==
    /\ cv.pc = "params"
    /\ cv.i <= Len(cv.element.children[1].params)
    /\ \E step \in ConvertParam(cv.mc, cv.element.children[1].params[cv.i],
                                cv.json_params, cv.ui_params, upv) :
          /\ upv' = step.upv
          /\ IF step.ok
             THEN cv' = [cv EXCEPT !.i = cv.i + 1,
                             !.json_params = step.json_params,
                             !.ui_params = step.ui_params]
             ELSE cv' = [cv EXCEPT !.pc = "raised",
                             !.json_params = step.json_params,
                             !.ui_params = step.ui_params,
                             !.exc = Exc("RuntimeError", step.msg)]
    /\ UNCHANGED <<ad, lk, asm, cn, sc, cc>>

\* lines 291-294: the two maps are returned
CvReturn ==
    /\ cv.pc = "params"
    /\ cv.i > Len(cv.element.children[1].params)
    /\ cv' = [cv EXCEPT !.pc = "returned"]
    /\ UNCHANGED <<ad, lk, upv, asm, cn, sc, cc>>

\* the pair convert_fuse_module returns
JsonModule(c) == [FenderId |-> c.mc.json_id, dspUnitParameters |-> c.json_params]
UiModule(c) ==
    [module_type |-> c.mc.fuse_type, module_name |-> c.mc.ui_name,
     params |-> c.ui_params]

-----------------------------------------------------------------------------
(* fuse_json_converters.py: fuse_to_json and the __main__ loop body *)

\* The parsed preset: parses is FALSE for text ET.fromstring rejects; root is
\* the sequence of the root's children, root[0] the amplifier element and
\* root[1] the element that holds the four effect elements.
Document(parses, root) == [parses |-> parses, root |-> root]

AsmIdle ==
    [pc |-> "idle", doc |-> Document(FALSE, <<>>), elements |-> <<>>, k |-> 0,
     problems |-> <<>>, json_modules |-> <<>>, ui_modules |-> <<>>,
     calls |-> <<>>, exc |-> NoExc, exported |-> FALSE, json_out |-> <<>>,
     ui_out |-> <<>>, failures |-> <<>>, files |-> <<>>, fn |-> 0, log |-> <<>>]

\* the call fuse_to_json(mk_stream, xml_stream, unconverted_param_values)
AsmCalled(doc) == [AsmIdle EXCEPT !.pc = "parse", !.doc = doc]

InSeq(x, seq) == \E j \in DOMAIN seq : seq[j] = x

\* lines 345-349 and 352-356: the problem is added unless it is already there
AddProblemDedup(problems, problem) ==
    IF InSeq(problem, problems) THEN problems ELSE Append(problems, problem)

\* lines 313-326: the exception the five element reads and tag assertions
\* raise, or NoExc
StructureProblem(doc) ==
    LET root == doc.root
        out_of_range == Exc("IndexError", PlainMessage("child index out of range"))
        failed_assert == Exc("AssertionError", PlainMessage(""))
        fx == root[2].children
        FxCheck(j, tag) ==
            IF Len(fx) < j THEN out_of_range
            ELSE IF fx[j].tag # tag THEN failed_assert
            ELSE NoExc
        FirstExc(checks) ==
            IF \A j \in DOMAIN checks : checks[j] = NoExc THEN NoExc
            ELSE checks[CHOOSE j \in DOMAIN checks :
                            /\ checks[j] # NoExc
                            /\ \A h \in 1 .. (j - 1) : checks[h] = NoExc]
    IN  IF ~doc.parses THEN Exc("ParseError", PlainMessage("syntax error"))
        ELSE IF Len(root) < 1 THEN out_of_range
        ELSE IF root[1].tag # "Amplifier" THEN failed_assert
        ELSE IF Len(root) < 2 THEN out_of_range
        ELSE FirstExc(<<FxCheck(1, "Stompbox"), FxCheck(2, "Modulation"),
                        FxCheck(3, "Delay"), FxCheck(4, "Reverb")>>)

\* lines 328-333: the elements the loop converts, in its order
LoopElementsMutOncePerSlot(doc) ==
    <<doc.root[2].children[1], doc.root[2].children[2], doc.root[1],
      doc.root[2].children[3], doc.root[2].children[4]>>

LoopElements(doc) ==
    <<doc.root[1],
      doc.root[2].children[1], doc.root[2].children[2],
      doc.root[1],
      doc.root[2].children[3], doc.root[2].children[4]>>

\* the exception classes the calls of fuse_to_json raise; each derives from
\* Exception (ParseError through SyntaxError)
ExceptionClasses ==
    {"ParseError", "IndexError", "AssertionError", "ValueError", "RuntimeError"}

\* line 350: except Exception
OuterCatchesMutAssertionOnly(cls) == cls = "AssertionError"

OuterCatches(cls) == cls \in ExceptionClasses

\* lines 305-326: the document is parsed and its five elements are read; an
\* exception leaves the try body before the loop has started
AsmParse ==
    /\ asm.pc = "parse"
    /\ LET e == StructureProblem(asm.doc)
       IN  IF e # NoExc
           THEN asm' = [asm EXCEPT !.pc = "raised", !.exc = e]
           ELSE asm' = [asm EXCEPT !.pc = "loop", !.k = 1,
                             !.elements = LoopElements(asm.doc)]
    /\ UNCHANGED <<ad, lk, cv, upv, cn, sc, cc>>

\* lines 350-358: the outer handler turns the exception into one problem and
\* the call returns; an exception it does not catch leaves fuse_to_json and,
\* as __main__ has no handler, ends the run
AsmOuterExcept ==
    /\ asm.pc = "raised"
    /\ IF OuterCatches(asm.exc.cls)
       THEN asm' = [asm EXCEPT !.pc = "done", !.exc = NoExc,
                         !.problems = AddProblemDedup(asm.problems, asm.exc.msg)]
       ELSE asm' = [asm EXCEPT !.pc = "propagated"]
    /\ UNCHANGED <<ad, lk, cv, upv, cn, sc, cc>>

\* lines 335-338: convert_fuse_module is called for the next element
AsmCall ==
    /\ asm.pc = "loop"
    /\ asm.k <= Len(asm.elements)
    /\ cv.pc = "idle"
    /\ cv' = CvCalled(asm.elements[asm.k].tag, asm.elements[asm.k])
    /\ asm' = [asm EXCEPT !.calls = Append(asm.calls, asm.elements[asm.k].tag)]
    /\ UNCHANGED <<ad, lk, upv, cn, sc, cc>>

\* lines 339-340: the returned maps are appended
AsmCollect ==
    /\ asm.pc = "loop"
    /\ cv.pc = "returned"
    /\ asm' = [asm EXCEPT !.k = asm.k + 1,
                    !.json_modules = Append(asm.json_modules, JsonModule(cv)),
                    !.ui_modules = Append(asm.ui_modules, UiModule(cv))]
    /\ cv' = CvIdle
    /\ UNCHANGED <<ad, lk, upv, cn, sc, cc>>

\* lines 334-349: the try statement is inside the for loop, so after a handler
\* the loop goes on with the element after element k of n
AfterExceptMutBreak(k, n) == n + 1

AfterExcept(k, n) == k + 1

\* lines 341-349: the exception of the call becomes a problem; an
\* AssertionError is added as it is, any other only if its text is new
AsmExcept ==
    /\ asm.pc = "loop"
    /\ cv.pc = "raised"
    /\ asm' = [asm EXCEPT !.k = AfterExcept(asm.k, Len(asm.elements)),
                    !.problems =
                        IF cv.exc.cls = "AssertionError"
                        THEN Append(asm.problems, cv.exc.msg)
                        ELSE AddProblemDedup(asm.problems, cv.exc.msg)]
    /\ cv' = CvIdle
    /\ UNCHANGED <<ad, lk, upv, cn, sc, cc>>

\* line 358: return problems, json_modules, ui_modules
AsmReturn ==
    /\ asm.pc = "loop"
    /\ asm.k > Len(asm.elements)
    /\ cv.pc = "idle"
    /\ asm' = [asm EXCEPT !.pc = "done"]
    /\ UNCHANGED <<ad, lk, cv, upv, cn, sc, cc>>

\* [seq[i] for i in indices], indices 0-based
PySelect(seq, indices) == [j \in DOMAIN indices |-> seq[indices[j] + 1]]

\* lines 388 and 390: the positions __main__ takes from the two lists
JsonIndices == <<1, 2, 3, 4, 5>>
UiIndices == <<0, 1, 2, 4, 5>>

\* lines 386-403: the preset is exported when there is no problem, else the
\* problems are written to the failures file
MainExport ==
    /\ asm.pc = "done"
    /\ LET entry == [fn |-> asm.fn, failed_modules |-> asm.problems,
                     json_modules |-> asm.json_modules]
       IN  IF Len(asm.problems) = 0
           THEN asm' = [asm EXCEPT !.pc = "exported", !.exported = TRUE,
                             !.json_out = PySelect(asm.json_modules, JsonIndices),
                             !.ui_out =
                                SelectSeq(PySelect(asm.ui_modules, UiIndices),
                                          LAMBDA m : m.module_type # "None"),
                             !.log = Append(asm.log, entry)]
           ELSE asm' = [asm EXCEPT !.pc = "failed", !.failures = asm.problems,
                             !.log = Append(asm.log, entry)]
    /\ UNCHANGED <<ad, lk, cv, upv, cn, sc, cc>>

\* lines 376-385: the loop over the archive's files calls fuse_to_json for the
\* next file, with the same frequency table
MainNextFile ==
    /\ asm.pc \in {"exported", "failed"}
    /\ asm.fn < Len(asm.files)
    /\ cv.pc = "idle"
    /\ asm' = [AsmCalled(asm.files[asm.fn + 1]) EXCEPT
                    !.files = asm.files, !.fn = asm.fn + 1, !.log = asm.log]
    /\ UNCHANGED <<ad, lk, cv, upv, cn, sc, cc>>

-----------------------------------------------------------------------------
(* _get_working_resources.py: the two string filters.  A string is a        *)
(* sequence of tokens (pieces of text that the filters never split), so that *)
(* replace and the substring test work on it.                                *)

\* s.replace(pat, ""): every occurrence of pat is removed, left to right
RECURSIVE StrRemove(_, _)
StrRemove(s, pat) ==
    IF Len(s) < Len(pat) THEN s
    ELSE IF SubSeq(s, 1, Len(pat)) = pat
         THEN StrRemove(SubSeq(s, Len(pat) + 1, Len(s)), pat)
         ELSE <<s[1]>> \o StrRemove(Tail(s), pat)

\* s in t
StrContains(t, s) ==
    \E i \in 0 .. (Len(t) - Len(s)) : SubSeq(t, i + 1, i + Len(s)) = s

\* the tokens that are neither alphanumeric nor "_"
NonAlnumTokens == {" ", "-", "!", "."}

\* filter_name_chars: a space becomes "_", then every character that is not
\* alphanumeric or "_" is dropped
filter_name_chars(s) ==
    SelectSeq([j \in DOMAIN s |-> IF s[j] = " " THEN "_" ELSE s[j]],
              LAMBDA t : t \notin NonAlnumTokens)

regex_list == <<<<"DUBS_", "Mustang">>, <<"DUBS_">>, <<"Reverb">>, <<"ACD_">>, <<"GT">>>>

RECURSIVE RemoveEach(_, _, _)
RemoveEach(s, pats, j) ==
    IF j > Len(pats) THEN s ELSE RemoveEach(StrRemove(s, pats[j]), pats, j + 1)

\* filter_fender_id: the five substrings are removed one after the other
filter_fender_id(s) == RemoveEach(s, regex_list, 1)

-----------------------------------------------------------------------------
(* _extract_lt_json_metadata.py: _make_preset_canonical.  A Python dict is a *)
(* function from its keys; a key the dict lacks is not in its DOMAIN.        *)

PyHas(d, k) == k \in DOMAIN d
PyEmptyDict == [k \in {} |-> <<>>]

\* d with d[k] = v
PySet(d, k, v) == [h \in DOMAIN d \cup {k} |-> IF h = k THEN v ELSE d[h]]
\* del d[k]
PyDel(d, k) == [h \in DOMAIN d \ {k} |-> d[h]]

DUBS_Passthru == <<"DUBS_", "Passthru">>

\* lines 81-84
RumbleOrder == <<"stomp", "mod", "amp", "eq", "delay">>
MustangOrder == <<"stomp", "mod", "amp", "delay", "reverb">>
RequiredOrder(candidate_dict) ==
    IF candidate_dict.info.product_id = <<"rumble", "-lt">>
    THEN RumbleOrder ELSE MustangOrder

\* what the call gives: the dict it returns, None with the lines it printed,
\* or the KeyError it lets through
CanonDict(d) == [kind |-> "dict", dict |-> d, printed |-> <<>>]
CanonNone(printed) == [kind |-> "None", dict |-> PyEmptyDict, printed |-> printed]
CanonKeyError == [kind |-> "KeyError", dict |-> PyEmptyDict, printed |-> <<>>]

\* line 104-105: the two lines printed for position i (0-based)
MissingExpectedNode(i, slot, original_nodes) ==
    [i |-> i, slot |-> slot,
     nodeIds |-> [j \in DOMAIN original_nodes |->
                    IF PyHas(original_nodes[j], "nodeId")
                    THEN original_nodes[j].nodeId ELSE "?"]]

\* line 99: the test for a passthrough node
IsPassthruMutNever(FenderId) == FALSE

IsPassthru(FenderId) == FenderId = DUBS_Passthru

\* lines 99-101: the node found for a position is put in canonical form
CanonNode(next_node) ==
    LET cleared == IF IsPassthru(next_node.FenderId)
                   THEN PySet(next_node, "dspUnitParameters", PyEmptyDict)
                   ELSE next_node
    IN  PySet(cleared, "FenderId", filter_fender_id(next_node.FenderId))

\* lines 89-98: the nodes whose nodeId is the one required at a position
MatchingNodesMutSubstitute(original_nodes, slot) ==
    IF \E j \in DOMAIN original_nodes : original_nodes[j].nodeId = slot
    THEN SelectSeq(original_nodes, LAMBDA a_node : a_node.nodeId = slot)
    ELSE <<original_nodes[1]>>

MatchingNodes(original_nodes, slot) ==
    SelectSeq(original_nodes, LAMBDA a_node : a_node.nodeId = slot)

\* lines 87-107: the loop over the five positions, from position i (1-based)
ReorderFromMutKeepOrder(original_nodes, required_order, i, reordered_nodes) ==
    CanonDict([j \in DOMAIN original_nodes |-> CanonNode(original_nodes[j])])

RECURSIVE ReorderFrom(_, _, _, _)
ReorderFrom(original_nodes, required_order, i, reordered_nodes) ==
    IF i > 5 THEN CanonDict(reordered_nodes)
    ELSE IF \E j \in DOMAIN original_nodes : ~PyHas(original_nodes[j], "nodeId")
    THEN CanonKeyError
    ELSE LET matching == MatchingNodes(original_nodes, required_order[i])
         IN  IF Len(matching) # 1
             THEN CanonNone(<<MissingExpectedNode(i - 1, required_order[i],
                                                 original_nodes)>>)
             ELSE IF ~PyHas(matching[1], "FenderId") THEN CanonKeyError
             ELSE ReorderFrom(original_nodes, required_order, i + 1,
                              Append(reordered_nodes, CanonNode(matching[1])))

\* lines 45-109
MakePresetCanonical(candidate_dict) ==
    IF ~PyHas(candidate_dict, "audioGraph") THEN CanonKeyError
    ELSE IF ~PyHas(candidate_dict.audioGraph, "nodes") THEN CanonKeyError
    ELSE IF Len(candidate_dict.audioGraph.nodes) # 5 THEN CanonNone(<<>>)
    ELSE IF ~PyHas(candidate_dict.audioGraph, "connections") THEN CanonKeyError
    ELSE IF ~PyHas(candidate_dict, "info") THEN CanonKeyError
    ELSE IF ~PyHas(candidate_dict.info, "product_id") THEN CanonKeyError
    ELSE LET r == ReorderFrom(candidate_dict.audioGraph.nodes,
                              RequiredOrder(candidate_dict), 1, <<>>)
         IN  IF r.kind = "dict"
             THEN CanonDict(PySet(candidate_dict, "audioGraph",
                        PySet(PyDel(candidate_dict.audioGraph, "connections"),
                              "nodes", r.dict)))
             ELSE r

\* line 219: json.dumps(candidate_dict, indent=4, sort_keys=True).  A dict of
\* the model has no key order and its numbers no spelling, so the dump is one
\* text for each dict and different texts for different dicts.
PrettyJson(candidate_dict) == [sorted |-> candidate_dict]

CnIdle ==
    [pc |-> "idle", candidate_dict |-> PyEmptyDict, res |-> CanonNone(<<>>),
     pretty |-> PrettyJson(PyEmptyDict), hash |-> 0, sha |-> <<>>]

\* the call _make_preset_canonical(candidate_dict)
CnCanonical ==
    /\ cn.pc = "called"
    /\ cn' = [cn EXCEPT !.pc = "returned",
                        !.res = MakePresetCanonical(cn.candidate_dict)]
    /\ UNCHANGED <<ad, lk, cv, upv, asm, sc, cc>>

\* lines 219-220 for the preset that was made canonical
CnHash ==
    /\ cn.pc = "returned"
    /\ cn.res.kind = "dict"
    /\ cn' = [cn EXCEPT !.pc = "hashed",
                        !.pretty = PrettyJson(cn.res.dict),
                        !.hash = cn.sha[PrettyJson(cn.res.dict)]]
    /\ UNCHANGED <<ad, lk, cv, upv, asm, sc, cc>>

-----------------------------------------------------------------------------
(* _extract_lt_json_metadata.py: _get_node_type_and_name and                 *)
(* find_fender_lt_json_snippets                                              *)

\* A line of the strings output: what json.loads makes of it (no JSON, a JSON
\* value that is no dict, or a dict) and the form of the text, which tells
\* apart texts that decode to the same value (key order, spelling of numbers)
Text(form, kind, dict) == [form |-> form, kind |-> kind, dict |-> dict]

\* the strings that occur in the text of a dict
TextStrings(d) ==
    (IF PyHas(d, "productFamily") THEN {d.productFamily} ELSE {})
    \cup (IF PyHas(d, "modules") THEN {d.modules[j] : j \in DOMAIN d.modules} ELSE {})
    \cup (IF PyHas(d, "FenderId") THEN {d.FenderId} ELSE {})
    \cup (IF PyHas(d, "nodeType") THEN {<<d.nodeType>>} ELSE {})
    \cup (IF PyHas(d, "info")
          THEN {IF h = "subcategory" THEN <<d.info[h]>> ELSE d.info[h] :
                    h \in DOMAIN d.info}
          ELSE {})
    \cup (IF PyHas(d, "audioGraph") /\ PyHas(d.audioGraph, "nodes")
          THEN UNION {{IF h = "nodeId" THEN <<d.audioGraph.nodes[j][h]>>
                       ELSE d.audioGraph.nodes[j][h] :
                          h \in DOMAIN d.audioGraph.nodes[j] \cap {"nodeId", "FenderId"}} :
                      j \in DOMAIN d.audioGraph.nodes}
          ELSE {})

\* s in text
TextContains(text, s) == \E t \in TextStrings(text.dict) : StrContains(t, s)

\* line 136: the display name of the presets that are ignored silently
EMPTY_NAME == <<"EMPTY">> \o [j \in 1 .. 9 |-> "_"]

\* what _get_node_type_and_name gives: the pair, with the dict as the call
\* leaves it; None; or an exception that no handler of the module catches.
\* printed holds the diagnostics the call wrote
NamePair(node_type, node_name, d, printed) ==
    [kind |-> "pair", node_type |-> node_type, node_name |-> node_name,
     dict |-> d, printed |-> printed]
NameNone(printed) ==
    [kind |-> "None", node_type |-> "", node_name |-> <<>>, dict |-> PyEmptyDict,
     printed |-> printed]
NameRaised(cls) ==
    [kind |-> cls, node_type |-> "", node_name |-> <<>>, dict |-> PyEmptyDict,
     printed |-> <<>>]

\* lines 149-154: the KeyError handler
UnableToDeriveName(node_type) == [unable_to_derive_name |-> node_type]
\* lines 140-143
CannotBeMadeCanonical(node_name) == [cannot_be_made_canonical |-> node_name]

\* line 129: f".{param_count:02}params"
ParamsSuffix(param_count) ==
    "." \o (IF param_count < 10 THEN "0" ELSE "") \o ToString(param_count)
        \o "params"

\* lines 115-130
NameOfDspUnit(candidate_dict) ==
    LET info == IF PyHas(candidate_dict, "info") THEN candidate_dict.info
                ELSE [subcategory |-> "unknown_dsp_unit_type",
                      displayName |-> <<"unknown_dsp_unit_name">>]
    IN  IF ~PyHas(info, "subcategory")
        THEN NameNone(<<UnableToDeriveName("dspUnit")>>)
        ELSE IF \/ ~PyHas(candidate_dict, "FenderId")
                \/ ~PyHas(candidate_dict, "ui")
                \/ ~PyHas(candidate_dict.ui, "uiParameters")
        THEN NameNone(<<UnableToDeriveName(info.subcategory)>>)
        ELSE LET param_count == Len(candidate_dict.ui.uiParameters)
                 node_name == filter_fender_id(candidate_dict.FenderId)
             IN  NamePair(info.subcategory,
                          IF param_count > 0
                          THEN Append(node_name, ParamsSuffix(param_count))
                          ELSE node_name,
                          candidate_dict, <<>>)

\* lines 131-144
NameOfPreset(candidate_dict) ==
    IF ~PyHas(candidate_dict, "info") \/ ~PyHas(candidate_dict.info, "displayName")
    THEN NameNone(<<UnableToDeriveName("preset")>>)
    ELSE LET node_name == filter_name_chars(candidate_dict.info.displayName)
             r == MakePresetCanonical(candidate_dict)
         IN  CASE r.kind = "dict" -> NamePair("preset", node_name, r.dict, <<>>)
               [] r.kind = "KeyError" -> NameNone(<<UnableToDeriveName("preset")>>)
               [] r.kind = "None" ->
                    IF node_name = EMPTY_NAME THEN NameNone(r.printed)
                    ELSE NameNone(Append(r.printed, CannotBeMadeCanonical(node_name)))

\* lines 112-156
GetNodeTypeAndName(candidate_dict) ==
    LET node_type == IF PyHas(candidate_dict, "nodeType")
                     THEN candidate_dict.nodeType ELSE "module_list"
    IN  CASE node_type = "dspUnit" -> NameOfDspUnit(candidate_dict)
          [] node_type = "preset" -> NameOfPreset(candidate_dict)
          [] node_type = "module_list" ->
                IF PyHas(candidate_dict, "productFamily")
                THEN NamePair(node_type, candidate_dict.productFamily,
                              candidate_dict, <<>>)
                ELSE NameNone(<<UnableToDeriveName(node_type)>>)
          [] OTHER -> NameRaised("UnboundLocalError")

\* product_module_json_text = None
NoText == Text(0, "None", PyEmptyDict)

ScIdle ==
    [pc |-> "idle", lines |-> <<>>, product_family_name |-> <<>>, sha |-> <<>>,
     candidate_lineno |-> 0, product_module_json_text |-> NoText,
     json_dict_objects |-> <<>>, printed |-> <<>>, visits |-> <<>>,
     resets |-> 0, files |-> {}, report |-> {}]

\* the call find_fender_lt_json_snippets(tone_lt_dir, product_family_name), the
\* strings of the executable being lines
ScCalled(lines, product_family_name, sha) ==
    [ScIdle EXCEPT !.pc = "scan", !.lines = lines,
                   !.product_family_name = product_family_name, !.sha = sha,
                   !.visits = [j \in DOMAIN lines |-> 0]]

\* line 243
CandidateFname(node_type, node_name, candidate_pretty_hash) ==
    [node_type |-> node_type, node_name |-> node_name,
     hash |-> candidate_pretty_hash]

\* lines 244-246: the entry of a first occurrence
FirstOccurrence(table, hash, fname, pretty, lineno) ==
    PySet(table, hash,
          [fname |-> fname, text |-> pretty, lines |-> <<ToString(lineno)>>])

\* line 249: a later occurrence
LaterOccurrenceMutReplace(table, hash, fname, pretty, lineno) ==
    FirstOccurrence(table, hash, fname, pretty, lineno)

LaterOccurrence(table, hash, fname, pretty, lineno) ==
    PySet(table, hash,
          [table[hash] EXCEPT !.lines = Append(@, ToString(lineno))])

\* lines 231-241: the filters a first occurrence goes through
PassesRoleFilter(text, candidate_dict, node_type, family_name, module_text) ==
    IF node_type = "preset"
    THEN TextContains(text, family_name)
    ELSE TextContains(module_text,
                      IF PyHas(candidate_dict, "FenderId")
                      THEN candidate_dict.FenderId ELSE <<>>)

\* line 211: a candidate is left for the second pass while the module list is
\* not known
DeferWhileSeekingMutNever(module_text) == FALSE

DeferWhileSeeking(module_text) == module_text = NoText

\* line 201: what is kept of the line that has the module list of the family
FoundModuleListMutForget(candidate_text) == NoText

FoundModuleList(candidate_text) == candidate_text

\* line 204: the line number the scan goes on from when the module list is found
RestartFromMutGoOn(candidate_lineno) == candidate_lineno

RestartFrom(candidate_lineno) == 0


\* lines 196-249 for a candidate that has a type and a name; sc1 is the state
\* with the line number already incremented
ScanCandidate(sc1, text, r) ==
    LET lineno == sc1.candidate_lineno
        pretty == PrettyJson(r.dict)
        hash == sc1.sha[pretty]
        table == sc1.json_dict_objects
        fname == CandidateFname(r.node_type, r.node_name, hash)
        store ==
            IF ~PyHas(table, hash)
            THEN IF PassesRoleFilter(text, r.dict, r.node_type,
                                     sc1.product_family_name,
                                     sc1.product_module_json_text)
                 THEN [sc1 EXCEPT !.json_dict_objects =
                            FirstOccurrence(table, hash, fname, pretty, lineno)]
                 ELSE sc1
            ELSE [sc1 EXCEPT !.json_dict_objects =
                        LaterOccurrence(table, hash, fname, pretty, lineno)]
    IN  IF r.node_name = sc1.product_family_name
        THEN IF r.node_type # "module_list"
             THEN [sc1 EXCEPT !.pc = "AssertionError"]
             ELSE IF sc1.product_module_json_text = NoText
             THEN [sc1 EXCEPT !.product_module_json_text = FoundModuleList(text),
                              !.candidate_lineno = RestartFrom(lineno),
                              !.resets = @ + 1]
             ELSE store
        ELSE IF DeferWhileSeeking(sc1.product_module_json_text) THEN sc1
        ELSE store

\* lines 171-251: one pass of the while loop
ScanLine ==
    /\ sc.pc = "scan"
    /\ sc.candidate_lineno < Len(sc.lines)
    /\ LET text == sc.lines[sc.candidate_lineno + 1]
           sc1 == [sc EXCEPT !.candidate_lineno = @ + 1,
                             !.visits[sc.candidate_lineno + 1] = @ + 1]
           r == GetNodeTypeAndName(text.dict)
           sc2 == [sc1 EXCEPT !.printed =
                        @ \o [j \in DOMAIN r.printed |->
                                [line |-> sc1.candidate_lineno, what |-> r.printed[j]]]]
       IN  sc' = IF text.kind # "dict" THEN sc1
                 ELSE IF DOMAIN text.dict = {} THEN sc1
                 ELSE CASE r.kind = "None" -> sc2
                        [] r.kind = "pair" -> ScanCandidate(sc2, text, r)
                        [] OTHER -> [sc2 EXCEPT !.pc = r.kind]
    /\ UNCHANGED <<ad, lk, cv, upv, asm, cn, cc>>

\* lines 252-257: the entries of the table are written, one file each, and
\* reported
ScanOutput ==
    /\ sc.pc = "scan"
    /\ sc.candidate_lineno >= Len(sc.lines)
    /\ LET table == sc.json_dict_objects
       IN  sc' = [sc EXCEPT !.pc = "done",
                    !.files = {<<table[h].fname, table[h].text>> : h \in DOMAIN table},
                    !.report = {<<table[h].fname, table[h].lines>> : h \in DOMAIN table}]
    /\ UNCHANGED <<ad, lk, cv, upv, asm, cn, cc>>

-----------------------------------------------------------------------------
(* The value-adaptor harness: fuse_to_json of a native value, then json_to_ui *)
(* of the result (fuse_json_adaptors.py lines 141-174 run the same calls).    *)

NativeValues == (-NegSpan) .. MaxNative

NoResult == Raised("")

\* no concurrent calls are running
CcIdle == [pc |-> "idle", th |-> <<>>, heap |-> <<>>, table |-> <<>>, table0 |-> <<>>]

AdIdle ==
    [pc |-> "idle", adaptor |-> "", native |-> 0, json |-> NoResult, ui |-> <<>>]

LkIdle ==
    [pc |-> "idle", type |-> "", id |-> 0, res |-> FuseMcLookup("", -1)]

AdInit ==
    /\ \E a \in Adaptors, v \in NativeValues :
          ad = [AdIdle EXCEPT !.pc = "start", !.adaptor = a, !.native = v]
    /\ lk = LkIdle
    /\ cv = CvIdle
    /\ upv = UpvNone
    /\ asm = AsmIdle
    /\ cn = CnIdle
    /\ sc = ScIdle
    /\ cc = CcIdle

AdFuseToJson ==
    /\ ad.pc = "start"
    /\ \E r \in FuseToJson(ad.adaptor, ad.native) :
          ad' = [ad EXCEPT !.pc = IF r.ok THEN "json" ELSE "raised", !.json = r]
    /\ UNCHANGED <<lk, cv, upv, asm, cn, sc, cc>>

AdJsonToUi ==
    /\ ad.pc = "json"
    /\ \E u \in JsonToUi(ad.adaptor, ad.json.val) :
          ad' = [ad EXCEPT !.pc = "ui", !.ui = u]
    /\ UNCHANGED <<lk, cv, upv, asm, cn, sc, cc>>

AdNext == AdFuseToJson \/ AdJsonToUi

SpecAdaptor == AdInit /\ [][AdNext]_vars

-----------------------------------------------------------------------------
(* The registry harness: one call fuse_mc_lookup(type, id) *)

ModuleIds == 0 .. MaxModuleId

LkInit ==
    /\ \E t \in ModuleTypes, id \in ModuleIds :
          lk = [LkIdle EXCEPT !.pc = "start", !.type = t, !.id = id]
    /\ ad = AdIdle
    /\ cv = CvIdle
    /\ upv = UpvNone
    /\ asm = AsmIdle
    /\ cn = CnIdle
    /\ sc = ScIdle
    /\ cc = CcIdle

LkLookup ==
    /\ lk.pc = "start"
    /\ lk' = [lk EXCEPT !.pc = "done", !.res = FuseMcLookup(lk.type, lk.id)]
    /\ UNCHANGED <<ad, cv, upv, asm, cn, sc, cc>>

LkNext == LkLookup

SpecLookup == LkInit /\ [][LkNext]_vars

-----------------------------------------------------------------------------
(* The module converter on its own: one call of convert_fuse_module *)

\* the parameter texts that are tried: the low sentinel and index 0, a value
\* outside [0x0300, 0xFF00] that is no sentinel, 0x8100, and text that is no
\* number
RawTexts == {Numeral(0), Numeral(500), Numeral(33024), Garbled("abc")}

\* the raw blocks: at most MaxParams parameters, positions ascending
RECURSIVE BlocksFrom(_, _)
BlocksFrom(lowest, n) ==
    IF n = 0 THEN {<<>>}
    ELSE {<<>>} \cup
         {<<Param(p, t)>> \o rest :
            p \in lowest .. MaxPos, t \in RawTexts, rest \in {<<>>}} \cup
         UNION {{<<Param(p, t)>> \o rest : t \in RawTexts,
                    rest \in BlocksFrom(p + 1, n - 1) \ {<<>>}} :
                p \in lowest .. MaxPos}

Blocks == BlocksFrom(0, MaxParams)

\* the requests that are tried: every descriptor under its own category, the
\* passthrough id under every category, an id under a category that is not
\* its own, and an id that is not registered
Requests ==
    {<<MODULE_CONVERTERS[j].fuse_type, MODULE_CONVERTERS[j].fuse_id>> :
        j \in {h \in DOMAIN MODULE_CONVERTERS :
                    MODULE_CONVERTERS[h].fuse_type # "None"}}
    \cup {<<t, PassthruFuseId>> : t \in ModuleTypes}
    \cup {<<"Stompbox", 83>>, <<"Amplifier", UnregisteredId>>}

\* the frequency tables that are tried: none, an empty one, and one that has
\* counted a parameter before
Tables ==
    {UpvNone, UpvDict(<<>>),
     UpvDict(<<"Amplifier", 2, 33024>> :> UpvEntry(2, 83 :> 1 @@ 117 :> 1))}

CvInit ==
    /\ \E req \in Requests, block \in Blocks :
          cv = CvCalled(req[1],
                        CategoryElement(req[1],
                            <<ModuleElement(Numeral(req[2]), block)>>))
    /\ upv \in Tables
    /\ ad = AdIdle
    /\ lk = LkIdle
    /\ asm = AsmIdle
    /\ cn = CnIdle
    /\ sc = ScIdle
    /\ cc = CcIdle

CvNext == CvLookup \/ CvParam \/ CvReturn

SpecConvert == CvInit /\ [][CvNext]_vars

-----------------------------------------------------------------------------
(* The preset assembler: one call of fuse_to_json and the export after it *)

\* the id of a descriptor registered under the category
RegisteredIdOf(tag) ==
    CASE tag = "Amplifier" -> 83
      [] tag = "Stompbox" -> 60
      [] tag = "Modulation" -> 45
      [] tag = "Delay" -> 22
      [] tag = "Reverb" -> 11

\* the elements that are tried for a category: the passthrough module, a
\* module with a parameter that has a converter, one with a parameter that has
\* none, one with a parameter that is no number, and a module that is not
\* registered
ModuleChoices(tag) ==
    <<ModuleElement(Numeral(PassthruFuseId), <<>>),
      ModuleElement(Numeral(RegisteredIdOf(tag)), <<Param(0, Numeral(33024))>>),
      ModuleElement(Numeral(RegisteredIdOf(tag)),
                    <<Param(MaxPos + 1, Numeral(33024))>>),
      ModuleElement(Numeral(RegisteredIdOf(tag)), <<Param(0, Garbled("abc"))>>),
      ModuleElement(Numeral(UnregisteredId), <<>>)>>

ElementChoices(tag) ==
    {CategoryElement(tag, <<ModuleChoices(tag)[h]>>) :
        h \in DOMAIN ModuleChoices(tag)}

FxElement(children) == CategoryElement("FX", children)

WellFormedDocuments ==
    {Document(TRUE, <<amp, FxElement(<<stomp, mod, delay, reverb>>)>>) :
        amp \in ElementChoices("Amplifier"), stomp \in ElementChoices("Stompbox"),
        mod \in ElementChoices("Modulation"), delay \in ElementChoices("Delay"),
        reverb \in ElementChoices("Reverb")}

PassthruElement(tag) ==
    CategoryElement(tag, <<ModuleElement(Numeral(PassthruFuseId), <<>>)>>)

\* documents with a structural defect: text that does not parse, a root with
\* no effects element, an effects element with a child missing, and an element
\* with another tag at one of the five places
DefectiveDocuments ==
    LET amp == PassthruElement("Amplifier")
        fx == <<PassthruElement("Stompbox"), PassthruElement("Modulation"),
                PassthruElement("Delay"), PassthruElement("Reverb")>>
    IN  {Document(FALSE, <<>>),
         Document(TRUE, <<amp>>),
         Document(TRUE, <<amp, FxElement(SubSeq(fx, 1, 3))>>),
         Document(TRUE, <<PassthruElement("Reverb"), FxElement(fx)>>)}
        \cup {Document(TRUE, <<amp, FxElement([fx EXCEPT ![j] = PassthruElement("Amplifier")])>>) :
                j \in 1 .. 4}

Documents == WellFormedDocuments \cup DefectiveDocuments

AsmInit ==
    /\ \E doc \in Documents :
          asm = [AsmCalled(doc) EXCEPT !.files = <<doc>>, !.fn = 1]
    /\ upv \in Tables
    /\ cv = CvIdle
    /\ ad = AdIdle
    /\ lk = LkIdle
    /\ cn = CnIdle
    /\ sc = ScIdle
    /\ cc = CcIdle

AsmNext ==
    \/ AsmParse \/ AsmOuterExcept \/ AsmCall \/ CvLookup \/ CvParam \/ CvReturn
    \/ AsmCollect \/ AsmExcept \/ AsmReturn \/ MainExport

SpecAssemble == AsmInit /\ [][AsmNext]_vars

-----------------------------------------------------------------------------
(* The batch run of __main__: fuse_to_json for each file of the archive *)

\* the files that are tried: every defective document, and presets whose five
\* modules are all of one of the element choices
UniformDocuments ==
    {Document(TRUE,
        <<CategoryElement("Amplifier", <<F["Amplifier"]>>),
          FxElement(<<CategoryElement("Stompbox", <<F["Stompbox"]>>),
                      CategoryElement("Modulation", <<F["Modulation"]>>),
                      CategoryElement("Delay", <<F["Delay"]>>),
                      CategoryElement("Reverb", <<F["Reverb"]>>)>>)>>) :
        F \in {[t \in ModuleTypes |-> ModuleChoices(t)[h]] :
                    h \in DOMAIN ModuleChoices("Amplifier")}}

BatchDocuments == DefectiveDocuments \cup UniformDocuments

RECURSIVE BatchesOf(_)
BatchesOf(n) ==
    IF n = 0 THEN {<<>>}
    ELSE {<<>>} \cup {<<doc>> \o rest : doc \in BatchDocuments,
                                        rest \in BatchesOf(n - 1)}

BatchInit ==
    /\ \E files \in BatchesOf(MaxFiles) \ {<<>>} :
          asm = [AsmCalled(files[1]) EXCEPT !.files = files, !.fn = 1]
    /\ upv = UpvDict(<<>>)
    /\ cv = CvIdle
    /\ ad = AdIdle
    /\ lk = LkIdle
    /\ cn = CnIdle
    /\ sc = ScIdle
    /\ cc = CcIdle

BatchNext == AsmNext \/ MainNextFile

\* the run is one thread that goes on until the loop is over
SpecBatch == BatchInit /\ [][BatchNext]_vars /\ WF_vars(BatchNext)

-----------------------------------------------------------------------------
(* Canonicalization on its own: one call of _make_preset_canonical and the  *)
(* dump and hash of its result                                              *)

\* the manufacturer id of a module of each category
ModuleIdOf(nodeId) ==
    CASE nodeId = "stomp" -> <<"DUBS_", "Overdrive">>
      [] nodeId = "mod" -> <<"DUBS_", "Chorus">>
      [] nodeId = "amp" -> <<"DUBS_", "Mustang", "Twin">>
      [] nodeId = "delay" -> <<"ACD_", "Tape", "Delay">>
      [] nodeId = "reverb" -> <<"DUBS_", "Spring", "Reverb">>
      [] nodeId = "eq" -> <<"DUBS_", "GT", "Equalizer">>

\* the parameter blocks a passthrough node comes with
BypassFlags == [bypass |-> FALSE, bypassMode |-> "Post"]

\* a graph node of the given category: a module with a parameter, or a
\* passthrough node with bypass flags, with an empty block, or with no block
GraphNode(nodeId, style) ==
    CASE style = "module" ->
            [nodeId |-> nodeId, FenderId |-> ModuleIdOf(nodeId),
             dspUnitParameters |-> [level |-> 50]]
      [] style = "flags" ->
            [nodeId |-> nodeId, FenderId |-> DUBS_Passthru,
             dspUnitParameters |-> BypassFlags]
      [] style = "empty" ->
            [nodeId |-> nodeId, FenderId |-> DUBS_Passthru,
             dspUnitParameters |-> PyEmptyDict]
      [] style = "absent" ->
            [nodeId |-> nodeId, FenderId |-> DUBS_Passthru]

\* the node sets that are tried: the five of each family, a set with no amp
\* and two stomps, a set with no amp and two reverbs
NodeIdSets ==
    {MustangOrder, RumbleOrder,
     <<"stomp", "stomp", "mod", "delay", "reverb">>,
     <<"stomp", "mod", "delay", "reverb", "reverb">>}

StyleSets ==
    {[j \in 1 .. 5 |-> "module"], [j \in 1 .. 5 |-> "flags"],
     [j \in 1 .. 5 |-> IF j = 1 THEN "flags" ELSE "module"],
     [j \in 1 .. 5 |-> IF j = 1 THEN "empty" ELSE "module"],
     [j \in 1 .. 5 |-> IF j = 5 THEN "absent" ELSE "module"]}

Perms5 == {q \in [1 .. 5 -> 1 .. 5] : \A i, j \in 1 .. 5 : i # j => q[i] # q[j]}

Permuted(seq, q) == [j \in 1 .. 5 |-> seq[q[j]]]

\* the orders the nodes of a candidate come in: the five rotations, forwards
\* and backwards
Orders5 ==
    {[j \in 1 .. 5 |-> ((j + r) % 5) + 1] : r \in 0 .. 4}
    \cup {[j \in 1 .. 5 |-> 5 - ((j + r) % 5)] : r \in 0 .. 4}

\* a preset dict as json.loads gives it
PresetDict(displayName, product_id, nodes, connections) ==
    [nodeType |-> "preset",
     info |-> [displayName |-> displayName, product_id |-> product_id],
     audioGraph |-> IF connections
                    THEN [nodes |-> nodes, connections |-> "cables"]
                    ELSE [nodes |-> nodes]]

ProductIds == {<<"mustang", "-lt">>, <<"rumble", "-lt">>}

FiveNodeLists ==
    {Permuted([j \in 1 .. 5 |-> GraphNode(ids[j], styles[j])], q) :
        ids \in NodeIdSets, styles \in StyleSets, q \in Orders5}

\* the candidates that are tried: five nodes in ten orders, with and without
\* connections, and graphs of four and of six nodes
CanonCandidates ==
    {PresetDict(<<"Clean">>, product_id, nodes, connections) :
        product_id \in ProductIds, nodes \in FiveNodeLists,
        connections \in BOOLEAN}
    \cup {PresetDict(<<"Clean">>, <<"mustang", "-lt">>, nodes, TRUE) :
            nodes \in {SubSeq([j \in 1 .. 5 |-> GraphNode(MustangOrder[j], "module")], 1, 4),
                       Append([j \in 1 .. 5 |-> GraphNode(MustangOrder[j], "module")],
                              GraphNode("eq", "module"))}}

\* the fingerprint functions that are tried for a set of texts: sha256 cut to
\* seven hex digits is some function of the text, and two texts may share a
\* value
DigestFunctions(texts) == [texts -> 1 .. MaxDigest]

CnInit ==
    /\ \E candidate_dict \in CanonCandidates :
          LET r == MakePresetCanonical(candidate_dict)
              texts == IF r.kind = "dict" THEN {PrettyJson(r.dict)} ELSE {}
          IN  \E sha \in DigestFunctions(texts) :
                 cn = [CnIdle EXCEPT !.pc = "called",
                                     !.candidate_dict = candidate_dict,
                                     !.sha = sha]
    /\ sc = ScIdle
    /\ cc = CcIdle
    /\ ad = AdIdle
    /\ lk = LkIdle
    /\ cv = CvIdle
    /\ upv = UpvNone
    /\ asm = AsmIdle

CnNext == CnCanonical \/ CnHash

SpecCanon == CnInit /\ [][CnNext]_vars

-----------------------------------------------------------------------------
(* The scan: one call of find_fender_lt_json_snippets *)

Families == {<<"mustang">>, <<"rumble">>}

\* a module-list line of a family
ModuleListDict(productFamily, modules) ==
    [productFamily |-> productFamily, modules |-> modules]

\* a module line
DspUnitDict(FenderId, subcategory, uiParameters) ==
    [nodeType |-> "dspUnit", FenderId |-> FenderId,
     info |-> [subcategory |-> subcategory, displayName |-> <<"Unit">>],
     ui |-> [uiParameters |-> uiParameters]]

NodesOf(ids, style) == [j \in DOMAIN ids |-> GraphNode(ids[j], style)]

\* the lines that are tried
LineChoices ==
    {\* text that is no JSON, a JSON number, an empty dict
     Text(1, "invalid", PyEmptyDict), Text(1, "scalar", PyEmptyDict),
     Text(1, "dict", PyEmptyDict),
     \* the module lists of the two families
     Text(1, "dict", ModuleListDict(<<"mustang">>,
            <<DUBS_Passthru, ModuleIdOf("stomp"), ModuleIdOf("amp")>>)),
     Text(1, "dict", ModuleListDict(<<"rumble">>,
            <<DUBS_Passthru, ModuleIdOf("eq")>>)),
     \* a mustang preset in two texts that differ in the order of the nodes and
     \* in the bypass flags of its passthrough nodes
     Text(1, "dict", PresetDict(<<"Clean">>, <<"mustang", "-lt">>,
            Permuted(NodesOf(MustangOrder, "flags"), <<5, 4, 3, 2, 1>>), TRUE)),
     Text(2, "dict", PresetDict(<<"Clean">>, <<"mustang", "-lt">>,
            NodesOf(MustangOrder, "empty"), TRUE)),
     \* a rumble preset
     Text(1, "dict", PresetDict(<<"Deep", " ", "Bass">>, <<"rumble", "-lt">>,
            NodesOf(RumbleOrder, "module"), TRUE)),
     \* a rumble preset whose display name has the word mustang in it
     Text(1, "dict", PresetDict(<<"mustang", " ", "Bass">>, <<"rumble", "-lt">>,
            NodesOf(RumbleOrder, "module"), TRUE)),
     \* a mustang preset with two stomp nodes and no amp node, one with four
     \* nodes, an empty preset with no node of the family, a preset with the
     \* name of the family
     Text(1, "dict", PresetDict(<<"Twice">>, <<"mustang", "-lt">>,
            NodesOf(<<"stomp", "stomp", "mod", "delay", "reverb">>, "module"), TRUE)),
     Text(1, "dict", PresetDict(<<"Four">>, <<"mustang", "-lt">>,
            NodesOf(<<"stomp", "mod", "amp", "delay">>, "module"), TRUE)),
     Text(1, "dict", PresetDict(<<"EMPTY">> \o [j \in 1 .. 9 |-> " "],
            <<"mustang", "-lt">>,
            NodesOf(<<"a", "b", "c", "d", "e">>, "empty"), TRUE)),
     Text(1, "dict", PresetDict(<<"mustang">>, <<"mustang", "-lt">>,
            NodesOf(MustangOrder, "module"), TRUE)),
     \* a module of the mustang list, one of the rumble list, one with no ui
     Text(1, "dict", DspUnitDict(ModuleIdOf("stomp"), "stomp", <<"level", "gain">>)),
     Text(1, "dict", DspUnitDict(ModuleIdOf("eq"), "eq", <<>>)),
     Text(1, "dict", [nodeType |-> "dspUnit", FenderId |-> ModuleIdOf("mod")]),
     \* a dict of another node type
     Text(1, "dict", [nodeType |-> "connection"])}

RECURSIVE LineSeqs(_)
LineSeqs(n) ==
    IF n = 0 THEN {<<>>}
    ELSE {<<>>} \cup {<<text>> \o rest : text \in LineChoices,
                                         rest \in LineSeqs(n - 1)}

\* the texts the lines are dumped to
PrettyTexts(lines) ==
    {PrettyJson(GetNodeTypeAndName(lines[j].dict).dict) :
        j \in {h \in DOMAIN lines :
                /\ lines[h].kind = "dict"
                /\ DOMAIN lines[h].dict # {}
                /\ GetNodeTypeAndName(lines[h].dict).kind = "pair"}}

ScInit ==
    /\ \E lines \in LineSeqs(MaxLines), product_family_name \in Families :
          \E sha \in DigestFunctions(PrettyTexts(lines)) :
             sc = ScCalled(lines, product_family_name, sha)
    /\ cc = CcIdle
    /\ cn = CnIdle
    /\ ad = AdIdle
    /\ lk = LkIdle
    /\ cv = CvIdle
    /\ upv = UpvNone
    /\ asm = AsmIdle

ScNext == ScanLine \/ ScanOutput

SpecScan == ScInit /\ [][ScNext]_vars

-----------------------------------------------------------------------------
(* Two calls of convert_fuse_module that run at once, as two threads of a   *)
(* host that converts presets in parallel, on one unconverted_param_values  *)
(* dict.  A thread may be switched after any statement of lines 276-284.    *)
(* The dict holds references to its entries (lists): heap is the entries    *)
(* that exist, table the dict from key to the entry it refers to.           *)

\* lines 253-258 for the call c
LookupStep(c) ==
    IF c.element.children = <<>>
    THEN [c EXCEPT !.pc = "raised",
                   !.exc = Exc("IndexError", PlainMessage("child index out of range"))]
    ELSE LET id == PyInt(c.element.children[1].ID)
             looked == FuseMcLookup(c.type, id.n)
         IN  IF ~id.ok
             THEN [c EXCEPT !.pc = "raised",
                            !.exc = Exc("ValueError", PlainMessage("invalid literal for int()"))]
             ELSE IF ~looked.ok
             THEN [c EXCEPT !.pc = "raised", !.exc = Exc("AssertionError", looked.msg)]
             ELSE [c EXCEPT !.pc = "params", !.mc = looked.mc, !.i = 1]

\* the locals of a call, those of lines 278-280 included
CcThread(fuse_module_type, fuse_module_element) ==
    [pc |-> "lookup", type |-> fuse_module_type, element |-> fuse_module_element,
     mc |-> NoMc, i |-> 0, json_params |-> <<>>, ui_params |-> <<>>,
     exc |-> NoExc, upv_key |-> <<>>, upv_entry |-> 0, upv_module_count |-> 0]

\* the dict as a value: each key with the entry it refers to
CcTableValue == UpvDict([k \in DOMAIN cc.table |-> cc.heap[cc.table[k]]])

CcParamOf(t) == cc.th[t].element.children[1].params[cc.th[t].i]

CcLookup(t) ==
    /\ cc.pc = "run" /\ cc.th[t].pc = "lookup"
    /\ cc' = [cc EXCEPT !.th[t] = LookupStep(@)]
    /\ UNCHANGED <<ad, lk, cv, upv, asm, cn, sc>>

\* lines 259-276: a parameter with a converter is converted; one with none is
\* stored under its synthetic name
CcParam(t) ==
    /\ cc.pc = "run" /\ cc.th[t].pc = "params"
    /\ cc.th[t].i <= Len(cc.th[t].element.children[1].params)
    /\ LET c == cc.th[t]
           param == CcParamOf(t)
           looked == FusePcLookup(c.mc, param.ControlIndex)
       IN  IF looked.raised \/ looked.found
           THEN \E step \in ConvertParam(c.mc, param, c.json_params, c.ui_params,
                                         CcTableValue) :
                   cc' = [cc EXCEPT !.th[t] =
                            IF step.ok
                            THEN [c EXCEPT !.i = c.i + 1,
                                           !.json_params = step.json_params,
                                           !.ui_params = step.ui_params]
                            ELSE [c EXCEPT !.pc = "raised",
                                           !.json_params = step.json_params,
                                           !.ui_params = step.ui_params,
                                           !.exc = Exc("RuntimeError", step.msg)]]
           ELSE cc' = [cc EXCEPT !.th[t] =
                        [c EXCEPT !.pc = "get",
                                  !.json_params =
                                      DictSet(c.json_params,
                                              SyntheticName(param.ControlIndex),
                                              JRaw(param.text))]]
    /\ UNCHANGED <<ad, lk, cv, upv, asm, cn, sc>>

\* lines 278-279: the key, and the entry of the key or a new list [0, {}]
CcGet(t) ==
    /\ cc.pc = "run" /\ cc.th[t].pc = "get"
    /\ LET c == cc.th[t]
           param == CcParamOf(t)
           n == PyInt(param.text)
           upv_key == <<c.mc.fuse_type, param.ControlIndex, n.n>>
       IN  IF ~n.ok
           THEN cc' = [cc EXCEPT !.th[t] =
                        [c EXCEPT !.pc = "raised",
                                  !.exc = Exc("RuntimeError",
                                              AttemptingMessage(c.mc, param.ControlIndex))]]
           ELSE IF upv_key \in DOMAIN cc.table
           THEN cc' = [cc EXCEPT !.th[t] =
                        [c EXCEPT !.pc = "count", !.upv_key = upv_key,
                                  !.upv_entry = cc.table[upv_key]]]
           ELSE cc' = [cc EXCEPT !.heap = Append(@, UpvEntry(0, <<>>)),
                                 !.th[t] =
                        [c EXCEPT !.pc = "count", !.upv_key = upv_key,
                                  !.upv_entry = Len(cc.heap) + 1]]
    /\ UNCHANGED <<ad, lk, cv, upv, asm, cn, sc>>

\* line 280
CcCount(t) ==
    /\ cc.pc = "run" /\ cc.th[t].pc = "count"
    /\ cc' = [cc EXCEPT !.th[t].pc = "incr",
                        !.th[t].upv_module_count =
                            DictGet(cc.heap[cc.th[t].upv_entry].by_id,
                                    cc.th[t].mc.fuse_id, 0)]
    /\ UNCHANGED <<ad, lk, cv, upv, asm, cn, sc>>

\* line 281
CcIncr(t) ==
    /\ cc.pc = "run" /\ cc.th[t].pc = "incr"
    /\ cc' = [cc EXCEPT !.th[t].pc = "sum",
                        !.heap[cc.th[t].upv_entry].by_id =
                            DictSet(@, cc.th[t].mc.fuse_id,
                                    cc.th[t].upv_module_count + 1)]
    /\ UNCHANGED <<ad, lk, cv, upv, asm, cn, sc>>

\* line 282
CcSum(t) ==
    /\ cc.pc = "run" /\ cc.th[t].pc = "sum"
    /\ LET by_id == cc.heap[cc.th[t].upv_entry].by_id
       IN  cc' = [cc EXCEPT !.th[t].pc = "store",
                            !.heap[cc.th[t].upv_entry].total =
                                SumOver(by_id, DOMAIN by_id)]
    /\ UNCHANGED <<ad, lk, cv, upv, asm, cn, sc>>

\* line 283, and on to the next parameter
CcStore(t) ==
    /\ cc.pc = "run" /\ cc.th[t].pc = "store"
    /\ cc' = [cc EXCEPT !.th[t].pc = "params", !.th[t].i = @ + 1,
                        !.table = DictSet(@, cc.th[t].upv_key, cc.th[t].upv_entry)]
    /\ UNCHANGED <<ad, lk, cv, upv, asm, cn, sc>>

\* lines 291-294
CcReturn(t) ==
    /\ cc.pc = "run" /\ cc.th[t].pc = "params"
    /\ cc.th[t].i > Len(cc.th[t].element.children[1].params)
    /\ cc' = [cc EXCEPT !.th[t].pc = "returned"]
    /\ UNCHANGED <<ad, lk, cv, upv, asm, cn, sc>>

\* the calls that are tried: two amplifiers that are registered and an id that
\* is not, with a parameter that has a converter (1) and two that have none
ConcurrentRequests == {<<"Amplifier", 83>>, <<"Amplifier", 117>>, <<"Amplifier", UnregisteredId>>}

ConcurrentBlocks ==
    {<<Param(2, Numeral(33024))>>,
     <<Param(1, Numeral(33024)), Param(2, Numeral(33024))>>,
     <<Param(2, Numeral(33024)), Param(3, Numeral(33024))>>,
     <<Param(2, Garbled("abc"))>>,
     <<Param(1, Numeral(33024))>>}

ConcurrentCalls ==
    {CcThread(req[1], CategoryElement(req[1], <<ModuleElement(Numeral(req[2]), block)>>)) :
        req \in ConcurrentRequests, block \in ConcurrentBlocks}

\* the dict the calls share: empty, or with an entry counted before
CcInit ==
    /\ \E first \in ConcurrentCalls, second \in ConcurrentCalls :
          \E heap \in {<<>>, <<UpvEntry(2, 83 :> 1 @@ 117 :> 1)>>} :
             LET table == IF heap = <<>> THEN <<>>
                          ELSE <<"Amplifier", 2, 33024>> :> 1
             IN  cc = [pc |-> "run", th |-> <<first, second>>, heap |-> heap,
                       table |-> table,
                       table0 |-> UpvDict([k \in DOMAIN table |-> heap[table[k]]])]
    /\ ad = AdIdle
    /\ lk = LkIdle
    /\ cv = CvIdle
    /\ upv = UpvNone
    /\ asm = AsmIdle
    /\ cn = CnIdle
    /\ sc = ScIdle

CcNext ==
    \E t \in 1 .. 2 :
        \/ CcLookup(t) \/ CcParam(t) \/ CcGet(t) \/ CcCount(t)
        \/ CcIncr(t) \/ CcSum(t) \/ CcStore(t) \/ CcReturn(t)

SpecConcurrent == CcInit /\ [][CcNext]_vars


\* every harness together
Init ==
    AdInit \/ LkInit \/ CvInit \/ AsmInit \/ BatchInit \/ CnInit \/ ScInit
    \/ CcInit

Next == AdNext \/ LkNext \/ CvNext \/ BatchNext \/ CnNext \/ ScNext \/ CcNext

Spec == Init /\ [][Next]_vars

-----------------------------------------------------------------------------
(* Properties of the value adaptors, checked under SpecAdaptor *)

\* The interchange range of each continuous adaptor of the registry, in
\* thousandths: default 0.0..1.0, volume -60.0..0.0, delay time 0.03..1.5.
InterchangeMin(a) ==
    CASE a = "default_cvpa" -> 0
      [] a = "volume_cvpa" -> -60000
      [] a = "delay_time_cvpa" -> 30

InterchangeMax(a) ==
    CASE a = "default_cvpa" -> 1000
      [] a = "volume_cvpa" -> 0
      [] a = "delay_time_cvpa" -> 1500

\* (interchange_max - interchange_min) / (0xFF00 - 0x0300) in lowest terms:
\* 1000/64512 = 125/8064, 60000/64512 = 625/672, 1470/64512 = 35/1536
SlopeNum(a) ==
    CASE a = "default_cvpa" -> 125
      [] a = "volume_cvpa" -> 625
      [] a = "delay_time_cvpa" -> 35

SlopeDen(a) ==
    CASE a = "default_cvpa" -> 8064
      [] a = "volume_cvpa" -> 672
      [] a = "delay_time_cvpa" -> 1536

AdApplied == ad.pc \in {"json", "raised", "ui"}

\* C1: for a continuous adaptor with native range [0x0300, 0xFF00],
\* to_interchange maps the native values 0 and 256 to interchange_min and
\* 65535 to interchange_max, and fails for every other native value below
\* 0x0300 or above 0xFF00.
C1_SentinelTolerance ==
    (AdApplied /\ ad.adaptor \in ContinuousAdaptors
        /\ (ad.native < 768 \/ ad.native > 65280))
    => IF ad.native \in {0, 256}
       THEN ad.json = Returned(JFloat(InterchangeMin(ad.adaptor)))
       ELSE IF ad.native = 65535
       THEN ad.json = Returned(JFloat(InterchangeMax(ad.adaptor)))
       ELSE ~ad.json.ok /\ ad.pc = "raised"

\* a value below the range that is no sentinel has been refused
C1_Witness ==
    /\ ad.adaptor = "volume_cvpa"
    /\ ad.native = 257
    /\ ad.pc = "raised"
    /\ ad.json.exc = "AssertionError"

\* C2: for every continuous adaptor of the registry and every native value v
\* in [native_min, native_max], to_interchange(v) is
\* out_min + (v - native_min) * (out_max - out_min) / (native_max - native_min)
\* rounded to 3 decimals (a thousandth nearest to it); native_min gives
\* interchange_min, native_max gives interchange_max, and the default adaptor
\* maps 0x8100 to 0.5.
C2_LinearInterpolation ==
    (AdApplied /\ ad.adaptor \in ContinuousAdaptors
        /\ ad.native >= 768 /\ ad.native <= 65280)
    => /\ ad.json.ok
       /\ ad.json.val.kind = "float"
       /\ LET den == SlopeDen(ad.adaptor)
              exact == InterchangeMin(ad.adaptor) * den
                        + (ad.native - 768) * SlopeNum(ad.adaptor)
          IN  2 * Abs(ad.json.val.num * den - exact) <= den
       /\ ad.native = 768 => ad.json.val.num = InterchangeMin(ad.adaptor)
       /\ ad.native = 65280 => ad.json.val.num = InterchangeMax(ad.adaptor)
       /\ (ad.adaptor = "default_cvpa" /\ ad.native = 33024)
            => ad.json.val.num = 500

\* the default adaptor has mapped 0x8100 to 0.5
C2_Witness ==
    /\ ad.adaptor = "default_cvpa"
    /\ ad.native = 33024
    /\ ad.pc = "json"
    /\ ad.json.val = JFloat(500)

\* C3: the boolean adaptor's to_interchange is false for native 0 and true
\* for every other native value, and its to_display renders false as "FALSE"
\* and true as "TRUE".
C3_BooleanAdaptor ==
    (AdApplied /\ ad.adaptor = "default_bpa")
    => /\ ad.json.ok
       /\ ad.json.val = JBool(ad.native # 0)
       /\ ad.pc = "ui" =>
            ad.ui = <<UiText(IF ad.native = 0 THEN "FALSE" ELSE "TRUE")>>

\* native 257 has been converted to true and displayed as "TRUE"
C3_Witness ==
    /\ ad.adaptor = "default_bpa"
    /\ ad.native = 257
    /\ ad.pc = "ui"
    /\ ad.json.val = JBool(TRUE)
    /\ ad.ui = <<UiText("TRUE")>>

\* the display token the claim gives for each token of low, medium, high, super
ClaimedDisplayToken(t) ==
    CASE t = "low" -> "LOW"
      [] t = "medium" -> "MID"
      [] t = "high" -> "HIGH"
      [] t = "super" -> "MAX"

\* C4: for the enumerated adaptor built from the list low, medium, high, super
\* and its display map, to_interchange(i) is the i-th token for every index i
\* of the list, and to_display(t) is the display token mapped to t.
C4_EnumeratedAdaptor ==
    (AdApplied /\ ad.adaptor = "low_med_hi_max_scpa" /\ ad.native \in 0 .. 3)
    => /\ ad.json.ok
       /\ ad.json.val = JStr(<<"low", "medium", "high", "super">>[ad.native + 1])
       /\ ad.pc = "ui" =>
            ad.ui = <<UiText(ClaimedDisplayToken(ad.json.val.str))>>

\* index 1 has been converted to "medium" and displayed as "MID"
C4_Witness ==
    /\ ad.adaptor = "low_med_hi_max_scpa"
    /\ ad.native = 1
    /\ ad.pc = "ui"
    /\ ad.json.val = JStr("medium")
    /\ ad.ui = <<UiText("MID")>>

-----------------------------------------------------------------------------
(* Properties of the registry, checked under SpecLookup *)

RegisteredUnder(type, id) ==
    {j \in DOMAIN MODULE_CONVERTERS :
        MODULE_CONVERTERS[j].fuse_type = type /\ MODULE_CONVERTERS[j].fuse_id = id}

\* C5: lookup succeeds with exactly one descriptor: for every descriptor d
\* registered under a category, lookup(d.category, d.native_id) returns d and
\* no other descriptor matches, and lookup(c, 0) returns the passthrough
\* descriptor for every category c.
C5_LookupFindsExactlyOne ==
    lk.pc = "done" =>
        /\ \A j \in RegisteredUnder(lk.type, lk.id) :
              /\ lk.res.ok
              /\ lk.res.n = 1
              /\ lk.res.mc = MODULE_CONVERTERS[j]
        /\ lk.id = 0 =>
              /\ lk.res.ok
              /\ lk.res.n = 1
              /\ lk.res.mc.json_id = "Passthru"
              /\ lk.res.mc.fuse_type = "None"

\* the passthrough descriptor has been found for the category Delay
C5_Witness ==
    /\ lk.pc = "done"
    /\ lk.type = "Delay"
    /\ lk.id = 0
    /\ lk.res.ok
    /\ lk.res.mc.json_id = "Passthru"

\* C6: for every (category, id) with a nonzero id that is not registered under
\* that category, also an id registered under another category only, lookup
\* fails with an error whose message contains the requested category and the
\* requested id; no descriptor is returned.
C6_LookupFailureNamesRequest ==
    (lk.pc = "done" /\ lk.id # 0 /\ RegisteredUnder(lk.type, lk.id) = {})
    => /\ ~lk.res.ok
       /\ lk.res.mc = NoMc
       /\ lk.res.msg.type = lk.type
       /\ lk.res.msg.id = lk.id

\* the amplifier id 83 has been refused under the category Stompbox
C6_Witness ==
    /\ lk.pc = "done"
    /\ lk.type = "Stompbox"
    /\ lk.id = 83
    /\ ~lk.res.ok
    /\ lk.res.msg = Message("Converter not found for", "Stompbox", 83, -1)

-----------------------------------------------------------------------------
(* Properties of the module converter, checked under SpecConvert *)

CvBlock == cv.element.children[1].params

CvSlots == cv.mc.param_converters.slots

HasSlot(param) == param.ControlIndex \in DOMAIN CvSlots

SlotOf(param) == CvSlots[param.ControlIndex]

\* C7: in a successful module conversion every raw parameter whose position
\* has a slot is in the interchange map under the slot's interchange field
\* name with the adapted value, and is in the display map if and only if the
\* slot declares a display field; a parameter of a hidden slot is never in the
\* display map.
C7_SlotParametersConverted ==
    cv.pc = "returned" =>
        /\ \A h \in DOMAIN CvBlock :
              HasSlot(CvBlock[h]) =>
                LET pc == SlotOf(CvBlock[h])
                    name == pc.json_param_name
                IN  /\ name \in DOMAIN cv.json_params
                    /\ \E r \in FuseToJson(pc.parameter_adaptor, CvBlock[h].text.n) :
                          r.ok /\ cv.json_params[name] = r.val
                    /\ pc.editable =>
                          /\ pc.ui_param_name \in DOMAIN cv.ui_params
                          /\ cv.ui_params[pc.ui_param_name]
                                \in JsonToUi(pc.parameter_adaptor, cv.json_params[name])
        /\ DOMAIN cv.ui_params =
              {SlotOf(CvBlock[h]).ui_param_name :
                  h \in {g \in DOMAIN CvBlock :
                            HasSlot(CvBlock[g]) /\ SlotOf(CvBlock[g]).editable}}

\* the step of the loop that handles a numeric parameter with no slot
UnmappedStep ==
    /\ cv.pc = "params"
    /\ cv.i <= Len(CvBlock)
    /\ ~HasSlot(CvBlock[cv.i])
    /\ CvBlock[cv.i].text.s = ""

\* the occurrence counter of the table entry (type, p, value) for module id
UpvCounter(table, type, p, value, id) ==
    IF <<type, p, value>> \in DOMAIN table.tab
    THEN DictGet(table.tab[<<type, p, value>>].by_id, id, 0)
    ELSE 0

\* C8: for every registered descriptor, the passthrough descriptor included,
\* and every raw parameter at a position p that has no slot, conversion goes
\* on, the interchange map holds the raw value verbatim under the synthetic
\* field name of p, and the frequency table entry (category, p, raw value) has
\* its counter for that descriptor incremented by one.
C8_UnmappedParameterKept ==
    [][UnmappedStep =>
        LET param == CvBlock[cv.i]
            name == SyntheticName(param.ControlIndex)
        IN  /\ cv'.pc = "params"
            /\ cv'.i = cv.i + 1
            /\ name \in DOMAIN cv'.json_params
            /\ cv'.json_params[name] = JRaw(param.text)
            /\ ~upv.is_none =>
                  UpvCounter(upv', cv.type, param.ControlIndex, param.text.n,
                             cv.mc.fuse_id)
                  = UpvCounter(upv, cv.type, param.ControlIndex, param.text.n,
                               cv.mc.fuse_id) + 1]_vars

\* a parameter the claim calls malformed: text that is no number, a value
\* outside the tolerated domain of a continuous slot, an index of an enumerated
\* slot that has no token
Malformed(param) ==
    \/ param.text.s # ""
    \/ /\ HasSlot(param)
       /\ SlotOf(param).parameter_adaptor \in ContinuousAdaptors
       /\ param.text.n \notin (768 .. 65280) \cup {0, 256, 65535}
    \/ /\ HasSlot(param)
       /\ SlotOf(param).parameter_adaptor = "low_med_hi_max_scpa"
       /\ param.text.n \notin 0 .. 3

FirstMalformed ==
    CHOOSE h \in DOMAIN CvBlock :
        /\ Malformed(CvBlock[h])
        /\ \A g \in 1 .. (h - 1) : ~Malformed(CvBlock[g])

\* C9: if a parameter of the raw block is malformed, conversion of the module
\* fails with an error naming the module's category, its native id and the
\* failing position, and no map is returned; the parameter is not skipped.
C9_MalformedParameterAborts ==
    (cv.pc \in {"returned", "raised"} /\ cv.mc # NoMc
        /\ \E h \in DOMAIN CvBlock : Malformed(CvBlock[h]))
    => /\ cv.pc = "raised"
       /\ cv.exc.msg.type = cv.type
       /\ cv.exc.msg.id = cv.element.children[1].ID.n
       /\ cv.exc.msg.pos = CvBlock[FirstMalformed].ControlIndex

-----------------------------------------------------------------------------
(* Properties of the preset assembler, checked under SpecAssemble *)

\* fuse_to_json has returned and reported no problem: the five elements were
\* present and convertible
AssembledClean ==
    /\ asm.pc \in {"done", "exported"}
    /\ Len(asm.problems) = 0

\* the interchange module and the display module of an element
IsJsonModuleOf(j, element) ==
    j.FenderId =
        FuseMcLookup(element.tag, element.children[1].ID.n).mc.json_id

IsUiModuleOf(u, element) ==
    u.module_name =
        FuseMcLookup(element.tag, element.children[1].ID.n).mc.ui_name

SlotElement(tag) ==
    IF tag = "Amplifier" THEN asm.doc.root[1]
    ELSE asm.doc.root[2].children[
            CASE tag = "Stompbox" -> 1 [] tag = "Modulation" -> 2
              [] tag = "Delay" -> 3 [] tag = "Reverb" -> 4]

FixedOrder == <<"Stompbox", "Modulation", "Amplifier", "Delay", "Reverb">>

\* C10 as claimed: for a document whose five module elements are present and
\* convertible, assemble invokes the Module Converter exactly once per slot
\* and returns exactly five interchange modules and five display modules, in
\* the order stomp, modulation, amplifier, delay, reverb.
C10_OncePerSlot ==
    AssembledClean =>
        /\ asm.calls = FixedOrder
        /\ Len(asm.json_modules) = 5
        /\ Len(asm.ui_modules) = 5
        /\ \A k \in 1 .. 5 :
              /\ IsJsonModuleOf(asm.json_modules[k], SlotElement(FixedOrder[k]))
              /\ IsUiModuleOf(asm.ui_modules[k], SlotElement(FixedOrder[k]))

CallOrder ==
    <<"Amplifier", "Stompbox", "Modulation", "Amplifier", "Delay", "Reverb">>

\* C10 amended: assemble invokes the Module Converter six times, in the order
\* amplifier, stomp, modulation, amplifier, delay, reverb, and returns six
\* interchange modules and six display modules in that order; the export that
\* follows takes positions 1..5 of the interchange list, which are five
\* modules in the order stomp, modulation, amplifier, delay, reverb.
C10_AmplifierTwice ==
    AssembledClean =>
        /\ asm.calls = CallOrder
        /\ Len(asm.json_modules) = 6
        /\ Len(asm.ui_modules) = 6
        /\ \A k \in 1 .. 6 :
              /\ IsJsonModuleOf(asm.json_modules[k], SlotElement(CallOrder[k]))
              /\ IsUiModuleOf(asm.ui_modules[k], SlotElement(CallOrder[k]))
        /\ asm.pc = "exported" =>
              /\ Len(asm.json_out) = 5
              /\ \A k \in 1 .. 5 :
                    IsJsonModuleOf(asm.json_out[k], SlotElement(FixedOrder[k]))

\* a preset with five registered modules has been converted and exported
C10_Witness ==
    /\ asm.pc = "exported"
    /\ Len(asm.problems) = 0
    /\ Len(asm.json_modules) = 6
    /\ <<asm.json_out[1].FenderId, asm.json_out[2].FenderId,
         asm.json_out[3].FenderId, asm.json_out[4].FenderId,
         asm.json_out[5].FenderId>>
        = <<"Overdrive", "Vibratone", "Deluxe65", "MonoDelay", "Spring65">>

\* the element of a slot is where fuse_to_json reads it and has the slot's tag
SlotPresent(doc, tag) ==
    LET j == CASE tag = "Stompbox" -> 1 [] tag = "Modulation" -> 2
               [] tag = "Delay" -> 3 [] tag = "Reverb" -> 4 [] OTHER -> 0
    IN  /\ doc.parses
        /\ IF tag = "Amplifier"
           THEN Len(doc.root) >= 1 /\ doc.root[1].tag = tag
           ELSE /\ Len(doc.root) >= 2
                /\ Len(doc.root[2].children) >= j
                /\ doc.root[2].children[j].tag = tag

DefectiveSlots(doc) == {tag \in ModuleTypes : ~SlotPresent(doc, tag)}

\* C11: when the element at one slot is missing or has the wrong tag, a
\* diagnostic is recorded, only that slot is skipped, and the module lists hold
\* the results of every other slot.
C11_DefectiveSlotSkipped ==
    (asm.pc \in {"done", "exported", "failed"} /\ asm.doc.parses
        /\ Cardinality(DefectiveSlots(asm.doc)) = 1)
    => /\ Len(asm.problems) >= 1
       /\ \A tag \in ModuleTypes \ DefectiveSlots(asm.doc) :
             /\ \E k \in DOMAIN asm.json_modules :
                   IsJsonModuleOf(asm.json_modules[k], SlotElement(tag))
             /\ \E k \in DOMAIN asm.ui_modules :
                   IsUiModuleOf(asm.ui_modules[k], SlotElement(tag))

\* convert_fuse_module returns for the element when it is called on its own
\* with a frequency table like the given one
ConvertsAlone(element, table) ==
    /\ element.children # <<>>
    /\ PyInt(element.children[1].ID).ok
    /\ LET looked == FuseMcLookup(element.tag, element.children[1].ID.n)
       IN  /\ looked.ok
           /\ \A h \in DOMAIN element.children[1].params :
                 \E step \in ConvertParam(looked.mc, element.children[1].params[h],
                                          <<>>, <<>>, table) : step.ok

\* fuse_to_json has returned for a document whose five elements are in place
AssembledWellFormed ==
    /\ asm.pc \in {"done", "exported", "failed"}
    /\ DefectiveSlots(asm.doc) = {}

\* the modules returned are those of the given elements, in their order
ReturnedAre(elements) ==
    /\ Len(asm.json_modules) = Len(elements)
    /\ Len(asm.ui_modules) = Len(elements)
    /\ \A k \in DOMAIN elements :
          /\ IsJsonModuleOf(asm.json_modules[k], elements[k])
          /\ IsUiModuleOf(asm.ui_modules[k], elements[k])

\* a diagnostic names the category and the id of the element
DiagnosticFor(element) ==
    \E k \in DOMAIN asm.problems :
        /\ asm.problems[k].type = element.tag
        /\ asm.problems[k].id = element.children[1].ID.n

C13_NoDuplicateDiagnostics ==
    asm.pc \in {"done", "exported", "failed"} =>
        \A h, k \in DOMAIN asm.problems :
            h # k => asm.problems[h] # asm.problems[k]

-----------------------------------------------------------------------------
(* Properties of the batch run, checked under SpecBatch *)

\* every file of the batch has been through fuse_to_json and the export step, a
\* file that does not parse with a problem and no module, a preset of five
\* passthrough modules with no problem
BatchOver ==
    /\ asm.pc \in {"exported", "failed"}
    /\ Len(asm.log) = Len(asm.files)
    /\ \A k \in DOMAIN asm.files :
          /\ asm.log[k].fn = k
          /\ ~asm.files[k].parses =>
                /\ Len(asm.log[k].failed_modules) >= 1
                /\ asm.log[k].json_modules = <<>>
          /\ (/\ DefectiveSlots(asm.files[k]) = {}
              /\ \A tag \in ModuleTypes :
                    ConvertsAlone(IF tag = "Amplifier" THEN asm.files[k].root[1]
                                  ELSE CHOOSE e \in {asm.files[k].root[2].children[j] : j \in 1 .. 4} :
                                           e.tag = tag,
                                  upv))
             => asm.log[k].failed_modules = <<>>

\* C14: assemble never propagates an error to its caller: a document that does
\* not parse yields a non-empty diagnostic list and no modules, and a batch
\* run goes on to process every following document.
C14_NeverPropagates ==
    /\ [](asm.pc # "propagated")
    /\ [](asm.pc = "done" /\ ~asm.doc.parses
            => Len(asm.problems) >= 1 /\ asm.json_modules = <<>>
                                      /\ asm.ui_modules = <<>>)
    /\ <>BatchOver

\* the first file of a batch did not parse and the second has been exported
C14_Witness ==
    /\ Len(asm.files) = 2
    /\ ~asm.files[1].parses
    /\ Len(asm.log) = 2
    /\ asm.log[1].json_modules = <<>>
    /\ asm.pc = "exported"

-----------------------------------------------------------------------------
(* Properties of canonicalization, checked under SpecCanon *)

CnNodes == cn.candidate_dict.audioGraph.nodes

\* the candidate of the call with other nodes
WithNodes(nodes) ==
    PySet(cn.candidate_dict, "audioGraph",
          PySet(cn.candidate_dict.audioGraph, "nodes", nodes))

\* the call on another candidate gives what the call of this state gave: the
\* same canonical dict, hence the same dump and the same fingerprint, or no
\* dict in both cases
SameOutcome(other_dict) ==
    LET r == MakePresetCanonical(other_dict)
    IN  /\ r.kind = cn.res.kind
        /\ r.kind = "dict" =>
              /\ r.dict.audioGraph.nodes = cn.res.dict.audioGraph.nodes
              /\ r.dict = cn.res.dict
        /\ cn.pc = "hashed" =>
              /\ PrettyJson(r.dict) = cn.pretty
              /\ cn.sha[PrettyJson(r.dict)] = cn.hash

\* C15: a preset with its five graph nodes in any two orders has the same
\* canonical node sequence, the same serialized text and the same fingerprint.
C15_NodeOrderIrrelevant ==
    (cn.pc \in {"returned", "hashed"} /\ Len(CnNodes) = 5)
    => \A q \in Perms5 : SameOutcome(WithNodes(Permuted(CnNodes, q)))

\* a preset whose nodes came in another order than the family's has been made
\* canonical and hashed
C15_Witness ==
    /\ cn.pc = "hashed"
    /\ [j \in 1 .. 5 |-> CnNodes[j].nodeId]
        = <<"reverb", "delay", "amp", "mod", "stomp">>
    /\ [j \in 1 .. 5 |-> cn.res.dict.audioGraph.nodes[j].nodeId] = MustangOrder

\* the parameter blocks of a passthrough node that are compared
ParamBlockStyles == {"flags", "empty", "absent"}

\* C16: two candidates that differ only in the parameter block of a
\* passthrough node have the same canonical document and fingerprint; the
\* canonical passthrough node has an empty block.
C16_PassthruBlockIrrelevant ==
    (cn.pc \in {"returned", "hashed"} /\ Len(CnNodes) = 5)
    => \A j \in 1 .. 5 :
          CnNodes[j].FenderId = DUBS_Passthru =>
              /\ \A style \in ParamBlockStyles :
                    SameOutcome(WithNodes(
                        [CnNodes EXCEPT ![j] = GraphNode(CnNodes[j].nodeId, style)]))
              /\ cn.res.kind = "dict" =>
                    \A k \in 1 .. 5 :
                        cn.res.dict.audioGraph.nodes[k].nodeId = CnNodes[j].nodeId
                        => cn.res.dict.audioGraph.nodes[k].dspUnitParameters
                            = PyEmptyDict

\* a preset whose stomp node is a passthrough with bypass flags has been made
\* canonical, and the flags are gone
C16_Witness ==
    /\ cn.pc = "hashed"
    /\ \E j \in 1 .. 5 :
          /\ CnNodes[j].nodeId = "stomp"
          /\ CnNodes[j].FenderId = DUBS_Passthru
          /\ CnNodes[j].dspUnitParameters = BypassFlags
    /\ cn.res.dict.audioGraph.nodes[1].dspUnitParameters = PyEmptyDict
    /\ cn.res.dict.audioGraph.nodes[2].dspUnitParameters # PyEmptyDict

\* the categories the preset's family requires and the candidate has no node of
AbsentSlots ==
    {RequiredOrder(cn.candidate_dict)[i] : i \in 1 .. 5}
        \ {CnNodes[j].nodeId : j \in DOMAIN CnNodes}

\* C18: when canonicalization of a five-node candidate fails because a
\* required category node is absent, the diagnostic names a slot that is
\* absent from the candidate's node set.
C18_DiagnosticNamesAbsentSlot ==
    (/\ cn.pc = "returned"
     /\ PyHas(cn.candidate_dict.audioGraph, "connections")
     /\ Len(CnNodes) = 5
     /\ AbsentSlots # {})
    => /\ cn.res.kind = "None"
       /\ Len(cn.res.printed) = 1
       /\ cn.res.printed[1].slot \in AbsentSlots

-----------------------------------------------------------------------------
(* Properties of the scan, checked under SpecScan *)

ScTable == sc.json_dict_objects

\* the elements of a Python list
Elements(seq) == {seq[j] : j \in DOMAIN seq}

\* the line is a preset candidate of five nodes that has no node of a category
\* its family requires
LackingPreset(text) ==
    /\ text.kind = "dict"
    /\ PyHas(text.dict, "nodeType") /\ text.dict.nodeType = "preset"
    /\ Len(text.dict.audioGraph.nodes) = 5
    /\ {RequiredOrder(text.dict)[i] : i \in 1 .. 5}
         \ {text.dict.audioGraph.nodes[j].nodeId : j \in 1 .. 5} # {}

\* C17: a five-node preset candidate that lacks a node of a required category
\* is never in the dedup table nor in the output, none of its lines is listed,
\* a diagnostic is written each time it is processed, and no stored preset has
\* a node of another category in the place of a required one.
C17_LackingPresetNeverStored ==
    /\ \A ln \in DOMAIN sc.lines :
          LackingPreset(sc.lines[ln]) =>
            /\ \A h \in DOMAIN ScTable :
                  /\ ToString(ln) \notin Elements(ScTable[h].lines)
                  /\ ScTable[h].fname.node_type = "preset" =>
                        ScTable[h].fname.node_name
                            # filter_name_chars(sc.lines[ln].dict.info.displayName)
            /\ \A file \in sc.files :
                  file[1].node_type = "preset" =>
                      file[1].node_name
                          # filter_name_chars(sc.lines[ln].dict.info.displayName)
            /\ Cardinality({k \in DOMAIN sc.printed :
                                /\ sc.printed[k].line = ln
                                /\ PyHas(sc.printed[k].what, "slot")})
                = sc.visits[ln]
    /\ \A h \in DOMAIN ScTable :
          ScTable[h].fname.node_type = "preset" =>
              [j \in 1 .. 5 |-> ScTable[h].text.sorted.audioGraph.nodes[j].nodeId]
                  = RequiredOrder(ScTable[h].text.sorted)

\* a scan that stored a preset has ended, and a preset with no amp node was
\* processed on both passes
C17_Witness ==
    /\ sc.pc = "done"
    /\ \E h \in DOMAIN ScTable : ScTable[h].fname.node_type = "preset"
    /\ \E ln \in DOMAIN sc.lines :
          /\ LackingPreset(sc.lines[ln])
          /\ "amp" \notin {sc.lines[ln].dict.audioGraph.nodes[j].nodeId : j \in 1 .. 5}
          /\ sc.visits[ln] = 2

\* the candidate of the line the next pass of the loop reads goes through the
\* table: it has a type and a name, the module list is known, and it passes
\* the assertion of line 197
StepText == sc.lines[sc.candidate_lineno + 1]
StepName == GetNodeTypeAndName(StepText.dict)
StepHash == sc.sha[PrettyJson(StepName.dict)]
StepReachesTable ==
    /\ sc.pc = "scan"
    /\ sc.candidate_lineno < Len(sc.lines)
    /\ StepText.kind = "dict" /\ DOMAIN StepText.dict # {}
    /\ StepName.kind = "pair"
    /\ sc.product_module_json_text # NoText
    /\ StepName.node_name = sc.product_family_name =>
            StepName.node_type = "module_list"

\* C19: the file name and the text of an entry of the dedup table are those of
\* its first occurrence and never change; a later line with the same
\* fingerprint only appends its 1-based line number; no entry is removed.
C19_FirstOccurrenceKept ==
    [][/\ \A h \in DOMAIN ScTable :
            /\ h \in DOMAIN ScTable'
            /\ ScTable'[h].fname = ScTable[h].fname
            /\ ScTable'[h].text = ScTable[h].text
            /\ \/ ScTable'[h].lines = ScTable[h].lines
               \/ /\ StepReachesTable /\ h = StepHash
                  /\ ScTable'[h].lines
                        = Append(ScTable[h].lines, ToString(sc.candidate_lineno + 1))
       /\ \A h \in DOMAIN ScTable' \ DOMAIN ScTable :
            /\ StepReachesTable /\ h = StepHash
            /\ ScTable'[h].fname
                = CandidateFname(StepName.node_type, StepName.node_name, h)
            /\ ScTable'[h].text = PrettyJson(StepName.dict)
            /\ ScTable'[h].lines = <<ToString(sc.candidate_lineno + 1)>>
       /\ (StepReachesTable /\ StepHash \in DOMAIN ScTable) =>
            /\ DOMAIN ScTable' = DOMAIN ScTable
            /\ ScTable'[StepHash].lines
                = Append(ScTable[StepHash].lines, ToString(sc.candidate_lineno + 1))
      ]_vars

\* an entry lists the line of its first occurrence and a later line
C19_Witness ==
    \E h \in DOMAIN ScTable :
        /\ ScTable[h].lines = <<"1", "3">>
        /\ ScTable[h].fname.node_type = "preset"

\* the candidate of a line has a type and a name and passes the role filter of
\* its type, the module list being known
PassesFilters(ln) ==
    LET text == sc.lines[ln]
        r == GetNodeTypeAndName(text.dict)
    IN  /\ text.kind = "dict" /\ DOMAIN text.dict # {}
        /\ r.kind = "pair"
        /\ sc.product_module_json_text # NoText
        /\ PassesRoleFilter(text, r.dict, r.node_type, sc.product_family_name,
                            sc.product_module_json_text)

\* the line is listed once, by the entry of its candidate's fingerprint
ListedOnce(ln) ==
    LET h == sc.sha[PrettyJson(GetNodeTypeAndName(sc.lines[ln].dict).dict)]
    IN  /\ h \in DOMAIN ScTable
        /\ Cardinality({j \in DOMAIN ScTable[h].lines :
                            ScTable[h].lines[j] = ToString(ln)}) = 1

\* the line on which the module list of the family was found
ModuleListLine ==
    CHOOSE ln \in DOMAIN sc.lines :
        /\ sc.lines[ln] = sc.product_module_json_text
        /\ \A j \in 1 .. (ln - 1) : sc.lines[j] # sc.product_module_json_text

\* the module list was found and the second pass has come back to its line
Replayed ==
    /\ sc.product_module_json_text # NoText
    /\ sc.visits[ModuleListLine] = 2

\* C20: a candidate on a line before the module-list line is deferred: when
\* the module-list line is found the scan restarts from line zero with nothing
\* stored yet; the second pass then runs line by line, with no exception,
\* until it is back at the module-list line, and from then on every candidate
\* of an earlier line that passes the role filters is in the table with its
\* own line number; at the end of the scan that holds for the candidates of
\* all lines alike.
C20_DeferredNotRejected ==
    /\ [][(sc.product_module_json_text = NoText
            /\ sc'.product_module_json_text # NoText)
          => /\ sc'.candidate_lineno = 0
             /\ sc'.json_dict_objects = <<>>]_vars
    /\ [][(sc.product_module_json_text # NoText /\ ~Replayed)
          => /\ sc.candidate_lineno < ModuleListLine
             /\ sc'.candidate_lineno = sc.candidate_lineno + 1
             /\ sc'.pc = "scan"]_vars
    /\ [](Replayed =>
            \A ln \in 1 .. (ModuleListLine - 1) :
                PassesFilters(ln) => ListedOnce(ln))
    /\ [](sc.pc = "done" =>
            \A ln \in DOMAIN sc.lines : PassesFilters(ln) => ListedOnce(ln))

\* the module list was found on the third line, and the presets of the two
\* lines before it are in the table with their line numbers
C20_Witness ==
    /\ sc.pc = "done"
    /\ sc.visits = <<2, 2, 2>>
    /\ PassesFilters(1) /\ PassesFilters(2)
    /\ ListedOnce(1) /\ ListedOnce(2)

\* the scan is where the code leaves it without an exception: before the
\* call, in the while loop, or after the output
ScanAlive == sc.pc \in {"idle", "scan", "done"}

\* the line is a non-empty dictionary
NonEmptyDictLine(text) == text.kind = "dict" /\ DOMAIN text.dict # {}

\* C21: every non-empty dictionary line is classified to a pair or to None, no
\* exception leaves the classification of a line the scan has read or the
\* check of line 197, and the scan goes on with the next line.
C21_ClassificationNeverStops ==
    /\ ScanAlive
    /\ \A ln \in DOMAIN sc.lines :
          (sc.visits[ln] > 0 /\ NonEmptyDictLine(sc.lines[ln])) =>
              GetNodeTypeAndName(sc.lines[ln].dict).kind \in {"pair", "None"}

\* the family a preset belongs to, as lines 81-84 tell the families apart
PresetFamily(d) ==
    IF d.info.product_id = <<"rumble", "-lt">> THEN <<"rumble">> ELSE <<"mustang">>

\* the dumped dict is a module (a dsp unit)
IsModuleDict(d) == PyHas(d, "nodeType") /\ d.nodeType = "dspUnit"

\* C22: the dedup table of a scan for a family holds no preset of another
\* family and no module whose manufacturer id does not occur in the text of
\* the module list that was found.
C22_TableOfOneFamily ==
    \A h \in DOMAIN ScTable :
        LET d == ScTable[h].text.sorted
        IN  /\ ScTable[h].fname.node_type = "preset" =>
                    PresetFamily(d) = sc.product_family_name
            /\ IsModuleDict(d) =>
                    TextContains(sc.product_module_json_text, d.FenderId)

-----------------------------------------------------------------------------
(* Properties of concurrent conversion calls, checked under SpecConcurrent *)

\* what a call gives its caller: the pair it returns or the exception it raises
CallResult(c) ==
    [pc |-> c.pc, mc |-> c.mc, json_params |-> c.json_params,
     ui_params |-> c.ui_params, exc |-> c.exc]

\* the loop of lines 259-289 run from parameter i to its end with nothing else
\* running: the results it can give, each with the table it leaves
RECURSIVE ConvertFrom(_, _, _)
ConvertFrom(c, i, table) ==
    IF i > Len(c.element.children[1].params)
    THEN {[res |-> CallResult([c EXCEPT !.pc = "returned"]), upv |-> table]}
    ELSE UNION {
            IF step.ok
            THEN ConvertFrom([c EXCEPT !.json_params = step.json_params,
                                       !.ui_params = step.ui_params],
                             i + 1, step.upv)
            ELSE {[res |-> CallResult([c EXCEPT !.pc = "raised",
                                                !.json_params = step.json_params,
                                                !.ui_params = step.ui_params,
                                                !.exc = Exc("RuntimeError", step.msg)]),
                   upv |-> step.upv]}
            : step \in ConvertParam(c.mc, c.element.children[1].params[i],
                                    c.json_params, c.ui_params, table)}

\* one whole call run on its own from the table
RunAlone(call, table) ==
    LET c == LookupStep(call)
    IN  IF c.pc = "raised" THEN {[res |-> CallResult(c), upv |-> table]}
        ELSE ConvertFrom(c, 1, table)

\* the results of the two calls and the table, when the first call runs to its
\* end before the second starts
OneAfterTheOther(first, second, table) ==
    UNION {{<<o1.res, o2.res, o2.upv>> : o2 \in RunAlone(second, o1.upv)} :
            o1 \in RunAlone(first, table)}

\* the call as it was made
CallOf(c) == CcThread(c.type, c.element)

BothOver == cc.pc = "run" /\ \A t \in 1 .. 2 : cc.th[t].pc \in {"returned", "raised"}

\* C23: when two conversion calls that share the frequency table have both
\* ended, the table and the two results are those of the two calls run one
\* after the other, in one order or the other, whatever the interleaving was.
C23_ConcurrentAsSequential ==
    BothOver =>
        \/ <<CallResult(cc.th[1]), CallResult(cc.th[2]), CcTableValue>>
             \in OneAfterTheOther(CallOf(cc.th[1]), CallOf(cc.th[2]), cc.table0)
        \/ <<CallResult(cc.th[2]), CallResult(cc.th[1]), CcTableValue>>
             \in OneAfterTheOther(CallOf(cc.th[2]), CallOf(cc.th[1]), cc.table0)

-----------------------------------------------------------------------------
(* Termination of the scan, checked under SpecScan *)

\* the scanner seeks the module list of the family, or collects
Seeking == sc.product_module_json_text = NoText

\* the passes of the loop that are left at most: the rest of this pass over the
\* lines, a whole pass more while the module list is not found, and the output
PassesLeft ==
    (IF sc.pc = "scan" THEN 1 + Len(sc.lines) - sc.candidate_lineno ELSE 0)
    + (IF sc.pc = "scan" /\ Seeking THEN 1 + Len(sc.lines) ELSE 0)

\* C24: the scan ends: the number of passes left is a natural number that
\* every pass of the loop lowers, and while the scan runs a pass or the output
\* can be taken; the line number goes back only once, to zero, on the pass that
\* finds the module list of the family; once collecting the scanner never
\* seeks again; no line is read more than twice.
C24_ScanTerminates ==
    /\ [](PassesLeft \in 0 .. (2 * Len(sc.lines) + 2))
    /\ [][PassesLeft' < PassesLeft]_vars
    /\ [](sc.pc = "scan" => sc.candidate_lineno \in 0 .. Len(sc.lines))
    /\ [](sc.resets <= 1 /\ (Seeking <=> sc.resets = 0)
          /\ \A ln \in DOMAIN sc.lines : sc.visits[ln] <= 2)
    /\ [][sc'.candidate_lineno < sc.candidate_lineno
            => Seeking /\ ~Seeking' /\ sc'.candidate_lineno = 0
               /\ sc'.resets = sc.resets + 1]_vars
    /\ [][~Seeking => ~Seeking']_vars

\* a scan has ended after the module list was found on its last line: the
\* line number was reset once and every line was read twice
C24_Witness ==
    /\ sc.pc = "done"
    /\ sc.resets = 1
    /\ Len(sc.lines) = MaxLines
    /\ \A ln \in DOMAIN sc.lines : sc.visits[ln] = 2

-----------------------------------------------------------------------------
(* Canonical presets in the table, checked under SpecScan *)

\* the dict is a preset
IsPresetDict(d) == PyHas(d, "nodeType") /\ d.nodeType = "preset"

\* the fixed order of the family of a preset
FixedOrderOf(d) ==
    IF PresetFamily(d) = <<"rumble">>
    THEN <<"stomp", "mod", "amp", "eq", "delay">>
    ELSE <<"stomp", "mod", "amp", "delay", "reverb">>

\* the line is a preset candidate whose graph has not exactly five nodes
NotFiveNodes(text) ==
    /\ text.kind = "dict" /\ IsPresetDict(text.dict)
    /\ Len(text.dict.audioGraph.nodes) # 5

\* C25: every preset in the dedup table has exactly five nodes, no connections,
\* and its i-th node is of the i-th category of the fixed order of its family;
\* a preset candidate with another number of nodes is never stored nor listed.
C25_StoredPresetsCanonical ==
    /\ \A h \in DOMAIN ScTable :
          LET d == ScTable[h].text.sorted
          IN  (IsPresetDict(d) \/ ScTable[h].fname.node_type = "preset") =>
                /\ IsPresetDict(d)
                /\ Len(d.audioGraph.nodes) = 5
                /\ ~PyHas(d.audioGraph, "connections")
                /\ \A i \in 1 .. 5 : d.audioGraph.nodes[i].nodeId = FixedOrderOf(d)[i]
    /\ \A ln \in DOMAIN sc.lines :
          NotFiveNodes(sc.lines[ln]) =>
              \A h \in DOMAIN ScTable :
                  /\ ToString(ln) \notin Elements(ScTable[h].lines)
                  /\ IsPresetDict(ScTable[h].text.sorted) =>
                        ScTable[h].text.sorted.info.displayName
                            # sc.lines[ln].dict.info.displayName

\* a scan has ended that stored a preset whose line has connections and its
\* nodes in another order, and that read a preset of four nodes on both passes
C25_Witness ==
    /\ sc.pc = "done"
    /\ \E ln \in DOMAIN sc.lines :
          /\ NotFiveNodes(sc.lines[ln]) /\ sc.visits[ln] = 2
    /\ \E ln \in DOMAIN sc.lines, h \in DOMAIN ScTable :
          /\ sc.lines[ln].kind = "dict" /\ IsPresetDict(sc.lines[ln].dict)
          /\ Len(sc.lines[ln].dict.audioGraph.nodes) = 5
          /\ PyHas(sc.lines[ln].dict.audioGraph, "connections")
          /\ sc.lines[ln].dict.audioGraph.nodes[1].nodeId = "reverb"
          /\ ScTable[h].lines = <<ToString(ln)>>
          /\ IsPresetDict(ScTable[h].text.sorted)

-----------------------------------------------------------------------------
(* The frequency table and the result of a conversion, checked under         *)
(* SpecConvert                                                               *)

\* the results the call of cv can give when it is run with the table
ResultsWith(table) ==
    {o.res : o \in RunAlone(CcThread(cv.type, cv.element), table)}

\* C26: the result of a module conversion, the two maps or the failure, is one
\* the same call gives with every frequency table: with no table, with an
\* empty table and with a table that has counted before.
C26_TableIrrelevant ==
    cv.pc \in {"returned", "raised"} =>
        \A table \in Tables : CallResult(cv) \in ResultsWith(table)

\* the positions of the raw block of the call
CvPositions == {CvBlock[h].ControlIndex : h \in DOMAIN CvBlock}

\* C27: in the descriptor a conversion uses, two different positions never
\* have the same interchange field name, and a conversion that returns gives
\* an interchange map with one entry for each position of the raw block.
C27_DistinctFieldNames ==
    /\ (cv.pc \in {"params", "returned"} /\ cv.mc.param_converters.is_dict) =>
          \A p, q \in DOMAIN CvSlots :
              p # q => CvSlots[p].json_param_name # CvSlots[q].json_param_name
    /\ cv.pc = "returned" =>
          Cardinality(DOMAIN cv.json_params) = Cardinality(CvPositions)

-----------------------------------------------------------------------------
(* The frequency table of an assemble call, checked under SpecAssemble *)

\* the total of the entry of a triple, 0 when the table has none
UpvTotal(table, key) ==
    IF key \in DOMAIN table.tab THEN table.tab[key].total ELSE 0

\* the five categories
Categories == {FixedOrder[j] : j \in DOMAIN FixedOrder}

\* a position no descriptor has a slot for and no table of the harness has
\* counted before the call, and the raw value the documents have there
FreshPosition == MaxPos + 1
FreshValue == 33024

\* the number of parameters of the document with the triple (category,
\* FreshPosition, FreshValue), in modules that are registered
OccurrencesInDocument(tag) ==
    LET module == SlotElement(tag).children[1]
    IN  IF ~FuseMcLookup(tag, module.ID.n).ok THEN 0
        ELSE Cardinality({h \in DOMAIN module.params :
                            /\ module.params[h].ControlIndex = FreshPosition
                            /\ module.params[h].text = Numeral(FreshValue)})

\* C28: one assemble call adds to the entry of a triple the number of
\* parameters with that triple the document has, each module's parameters
\* being counted once: nothing is counted before the call, never more than
\* the document has, and all of them when the call has returned; the total of
\* every entry is the sum of its counters.
C28_CountedOncePerPreset ==
    ~upv.is_none =>
        /\ \A key \in DOMAIN upv.tab :
              upv.tab[key].total
                = SumOver(upv.tab[key].by_id, DOMAIN upv.tab[key].by_id)
        /\ asm.pc = "parse" =>
              \A tag \in Categories :
                  UpvTotal(upv, <<tag, FreshPosition, FreshValue>>) = 0
        /\ (asm.pc \in {"loop", "done", "exported", "failed"}
                /\ StructureProblem(asm.doc) = NoExc) =>
              \A tag \in Categories :
                  UpvTotal(upv, <<tag, FreshPosition, FreshValue>>)
                    <= OccurrencesInDocument(tag)
        /\ (asm.pc \in {"done", "exported", "failed"}
                /\ StructureProblem(asm.doc) = NoExc) =>
              \A tag \in Categories :
                  UpvTotal(upv, <<tag, FreshPosition, FreshValue>>)
                    = OccurrencesInDocument(tag)

-----------------------------------------------------------------------------
(* The line lists of the table, checked under SpecScan *)

\* the number a line list holds as text
LineNumber(str) == CHOOSE n \in 0 .. (MaxLines + 1) : ToString(n) = str

\* C29: at every point of the scan, the second pass included, the line lists
\* of the table hold each line number at most once over all entries, every
\* list is strictly increasing and holds numbers of lines already read in
\* this pass, and the table is empty while the scanner seeks the module list.
C29_LinesListedOnce ==
    /\ Seeking => DOMAIN ScTable = {}
    /\ \A h \in DOMAIN ScTable :
          /\ \A i, j \in DOMAIN ScTable[h].lines :
                i < j => LineNumber(ScTable[h].lines[i]) < LineNumber(ScTable[h].lines[j])
          /\ \A i \in DOMAIN ScTable[h].lines :
                LineNumber(ScTable[h].lines[i]) \in 1 .. sc.candidate_lineno
          /\ \A g \in DOMAIN ScTable :
                g # h => Elements(ScTable[g].lines) \cap Elements(ScTable[h].lines) = {}

\* the module list was found on the second line; after the second pass the
\* preset of lines 1 and 3 lists both and the module list lists line 2
C29_Witness ==
    /\ sc.pc = "done"
    /\ sc.resets = 1
    /\ sc.visits[1] = 2
    /\ \E h, g \in DOMAIN ScTable :
          /\ ScTable[h].lines = <<"1", "3">>
          /\ ScTable[g].lines = <<"2">>
          /\ ScTable[g].fname.node_type = "module_list"

-----------------------------------------------------------------------------
(* A scan with no module list of the family, checked under SpecScan *)

\* the line has a type and a name
Classified(text) ==
    /\ NonEmptyDictLine(text)
    /\ GetNodeTypeAndName(text.dict).kind = "pair"

\* the line is a module list that names the requested family
NamesFamily(text) ==
    /\ Classified(text)
    /\ GetNodeTypeAndName(text.dict).node_type = "module_list"
    /\ GetNodeTypeAndName(text.dict).node_name = sc.product_family_name

HasModuleListLine == \E ln \in DOMAIN sc.lines : NamesFamily(sc.lines[ln])

\* C30: when no line is a module list that names the requested family, the
\* table is empty at every point of the scan, the line number is never reset,
\* and the scan writes no file and reports none.
C30_NoModuleListNoOutput ==
    (sc.pc # "idle" /\ ~HasModuleListLine) =>
        /\ DOMAIN ScTable = {}
        /\ Seeking
        /\ sc.resets = 0
        /\ \A ln \in DOMAIN sc.lines : sc.visits[ln] <= 1
        /\ sc.files = {}
        /\ sc.report = {}

\* a scan for the mustang family has ended whose lines are a mustang preset, a
\* module and the module list of the other family
C30_Witness ==
    /\ sc.pc = "done"
    /\ ~HasModuleListLine
    /\ sc.product_family_name = <<"mustang">>
    /\ Len(sc.lines) = 3
    /\ \A ln \in DOMAIN sc.lines : Classified(sc.lines[ln]) /\ sc.visits[ln] = 1
    /\ \E ln \in DOMAIN sc.lines :
          /\ IsPresetDict(sc.lines[ln].dict)
          /\ TextContains(sc.lines[ln], sc.product_family_name)
    /\ \E ln \in DOMAIN sc.lines : IsModuleDict(sc.lines[ln].dict)
    /\ \E ln \in DOMAIN sc.lines :
          GetNodeTypeAndName(sc.lines[ln].dict).node_type = "module_list"

====
